---- MODULE Spec2Model ----
(***************************************************************************)
(* A model of the runtime of pimedad/frontend-framework: the virtual node  *)
(* constructors and node equality, the sequence diff (arraysDiffSequence), *)
(* the scheduler of lifecycle hooks, and the mount / destroy / patch       *)
(* engines with the component runtime on top of them.                      *)
(*                                                                         *)
(* Indices are 0-based as in the JavaScript source; TLA+ sequences are     *)
(* 1-based, so array[i] of the source is array[i + 1] here.                *)
(***************************************************************************)
EXTENDS Integers, Sequences, FiniteSets, TLC

(***************************************************************************)
(* Bounds of the model.                                                    *)
(***************************************************************************)
MaxLen == 3          \* longest old / new sequence handed to arraysDiffSequence
MaxJobs == 4         \* jobs submitted to the scheduler in one behaviour

VARIABLES
  dOld, dNew, dFn, dSt, dPc,        \* arraysDiffSequence: inputs, loop state, position
  eqOne, eqTwo, eqResult,            \* areNodesEqual: the two nodes and the answer
  sch,                               \* scheduler.js: module state and the event loop around it
  w,                                 \* the live environment and everything that refers to it
  cur,                               \* the tree the application holds, and how it got there
  obs,                               \* the last engine call: its name and the world before it
  app,                               \* app.js: the variables closed over by createApp
  call,                              \* the last call on a component, an application or insert
  slots,                             \* fillSlots: the rendered tree, the external content, the result
  pure,                              \* a function without effects: its name, arguments and result
  router                             \* router.js: the HashRouter, the window it listens on, its pending calls

vars == <<dOld, dNew, dFn, dSt, dPc, eqOne, eqTwo, eqResult, sch, w, cur, obs, app, call, slots, pure, router>>

(***************************************************************************)
(* h.js: node variants and constructors.                                   *)
(***************************************************************************)
DOM_TYPES == [TEXT |-> "text", ELEMENT |-> "element", FRAGMENT |-> "fragment",
              COMPONENT |-> "component", SLOT |-> "slot"]

Undefined == "undefined"                \* JavaScript's undefined (an absent key)
JsNull == [js |-> "null"]               \* a null entry of a children array
JsUndefined == [js |-> "undefined"]     \* an undefined entry of a children array
JsString(str) == [js |-> "string", value |-> str]

ComponentNames == {"Counter", "Multi", "Card", "Box", "Rows"}   \* the component classes of the model

\* the props object of h(): its key, its plain attributes and its `on` map
\* props.class is a string (a sequence of characters), an array of strings, or
\* missing; props.style is an object, an empty one when missing
ClassString(text) == [kind |-> "string", text |-> text, list |-> <<>>]
ClassArray(list) == [kind |-> "array", text |-> <<>>, list |-> list]
NoClass == [kind |-> "undefined", text |-> <<>>, list |-> <<>>]

Props(key, attrs, on) ==
  [key |-> key, attrs |-> attrs, on |-> on, class |-> NoClass, style |-> <<>>]
EmptyMap == <<>>
NoProps == Props(Undefined, EmptyMap, EmptyMap)

\* withoutNulls with a filter on the truth of the item: the empty string goes too
withoutNulls_truthy(arr) ==
  SelectSeq(arr, LAMBDA item : item # JsNull /\ item # JsUndefined /\ item # JsString(""))

withoutNulls(arr) == SelectSeq(arr, LAMBDA item : item # JsNull /\ item # JsUndefined)

hString(str) == [type |-> DOM_TYPES.TEXT, value |-> str]

RECURSIVE mapTextNodes(_)
mapTextNodes(children) ==
  IF children = <<>> THEN <<>>
  ELSE LET child == Head(children)
       IN <<IF "js" \in DOMAIN child THEN hString(child.value) ELSE child>>
          \o mapTextNodes(Tail(children))

h(tag, props, children) ==
  [tag |-> tag,
   props |-> props,
   type |-> IF tag \in ComponentNames THEN DOM_TYPES.COMPONENT ELSE DOM_TYPES.ELEMENT,
   children |-> mapTextNodes(withoutNulls(children))]

hFragment(vNodes) ==
  [type |-> DOM_TYPES.FRAGMENT, children |-> mapTextNodes(withoutNulls(vNodes))]

\* a call h(tag), h(tag, props) or h(tag, props, children): props = {}, children = []
hCall(args) ==
  h(args[1], IF Len(args) >= 2 THEN args[2] ELSE NoProps, IF Len(args) >= 3 THEN args[3] ELSE <<>>)

hSlot(children) == [type |-> DOM_TYPES.SLOT, children |-> children]

(***************************************************************************)
(* nodes-equal.js                                                          *)
(***************************************************************************)
areNodesEqual_tagOnly(nodeOne, nodeTwo) ==
  IF nodeOne.type # nodeTwo.type THEN FALSE
  ELSE IF nodeOne.type \in {DOM_TYPES.ELEMENT, DOM_TYPES.COMPONENT}
       THEN nodeOne.tag = nodeTwo.tag
       ELSE TRUE

areNodesEqual(nodeOne, nodeTwo) ==
  IF nodeOne.type # nodeTwo.type THEN FALSE
  ELSE IF nodeOne.type = DOM_TYPES.ELEMENT
       THEN nodeOne.tag = nodeTwo.tag /\ nodeOne.props.key = nodeTwo.props.key
  ELSE IF nodeOne.type = DOM_TYPES.COMPONENT
       THEN nodeOne.tag = nodeTwo.tag /\ nodeOne.props.key = nodeTwo.props.key
  ELSE TRUE

\* the equalsFn argument of arraysDiffSequence: its default (a === b) or areNodesEqual
\* or a function of the caller: one that is never true, one that is always
\* true, one that is neither reflexive nor symmetric (a stands before b in
\* the alphabet)
Alphabet == <<"A", "B", "C">>
Precedes(a, b) == \E i, j \in 1..Len(Alphabet) : i < j /\ Alphabet[i] = a /\ Alphabet[j] = b

equalsFn(fn, a, b) ==
  CASE fn = "strict" -> a = b
    [] fn = "never" -> FALSE
    [] fn = "always" -> TRUE
    [] fn = "before" -> Precedes(a, b)
    [] OTHER -> areNodesEqual(a, b)

(***************************************************************************)
(* utils/arrays.js: ArrayWithOriginalIndices and arraysDiffSequence.       *)
(***************************************************************************)
ARRAY_DIFF_OP == [ADD |-> "add", REMOVE |-> "remove", MOVE |-> "move", NOOP |-> "noop"]

\* Array.prototype.splice(index, 1) and splice(index, 0, item)
SpliceOut(s, index) == SubSeq(s, 1, index) \o SubSeq(s, index + 2, Len(s))
SpliceIn(s, index, item) ==
  LET at == IF index > Len(s) THEN Len(s) ELSE index
  IN SubSeq(s, 1, at) \o <<item>> \o SubSeq(s, at + 1, Len(s))

RECURSIVE indicesUpTo(_)
indicesUpTo(length) == IF length = 0 THEN <<>> ELSE Append(indicesUpTo(length - 1), length - 1)

ArrayWithOriginalIndices(array) ==
  [array |-> array, originalIndices |-> indicesUpTo(Len(array))]

isRemoval_atIndex(a, index, newArray, fn) ==
  IF index >= Len(a.array) THEN FALSE
  ELSE index >= Len(newArray) \/ ~ equalsFn(fn, a.array[index + 1], newArray[index + 1])

\* isRemoval that looks for the item in the new array from the index on only
isRemoval_fromIndex(a, index, newArray, fn) ==
  IF index >= Len(a.array) THEN FALSE
  ELSE ~ \E j \in (index + 1)..Len(newArray) : equalsFn(fn, a.array[index + 1], newArray[j])

isRemoval(a, index, newArray, fn) ==
  IF index >= Len(a.array) THEN FALSE
  ELSE ~ \E j \in 1..Len(newArray) : equalsFn(fn, a.array[index + 1], newArray[j])

removeItem(a, index) ==
  [operation |-> [op |-> ARRAY_DIFF_OP.REMOVE, index |-> index, item |-> a.array[index + 1]],
   a |-> [array |-> SpliceOut(a.array, index),
          originalIndices |-> SpliceOut(a.originalIndices, index)]]

isNoop(a, index, newArray, fn) ==
  IF index >= Len(a.array) THEN FALSE
  ELSE equalsFn(fn, a.array[index + 1], newArray[index + 1])

\* originalIndexAt that answers with the index the item has now
originalIndexAt_current(a, index) == index

originalIndexAt(a, index) == a.originalIndices[index + 1]

noopItem(a, index) ==
  [op |-> ARRAY_DIFF_OP.NOOP, originalIndex |-> originalIndexAt(a, index),
   index |-> index, item |-> a.array[index + 1]]

\* findIndexFrom that returns the last match instead of the first
findIndexFrom_last(a, item, fromIndex, fn) ==
  LET hits == {i \in fromIndex..(Len(a.array) - 1) : equalsFn(fn, item, a.array[i + 1])}
  IN IF hits = {} THEN -1 ELSE CHOOSE i \in hits : \A j \in hits : i >= j

findIndexFrom(a, item, fromIndex, fn) ==
  LET hits == {i \in fromIndex..(Len(a.array) - 1) : equalsFn(fn, item, a.array[i + 1])}
  IN IF hits = {} THEN -1 ELSE CHOOSE i \in hits : \A j \in hits : i <= j

isAddition(a, item, fromIdx, fn) == findIndexFrom(a, item, fromIdx, fn) = -1

addItem(a, item, index) ==
  [operation |-> [op |-> ARRAY_DIFF_OP.ADD, index |-> index, item |-> item],
   a |-> [array |-> SpliceIn(a.array, index, item),
          originalIndices |-> SpliceIn(a.originalIndices, index, -1)]]

moveItem_stay(a, item, toIndex, fn) ==
  LET fromIndex == findIndexFrom(a, item, toIndex, fn)
  IN [operation |-> [op |-> ARRAY_DIFF_OP.MOVE,
                     originalIndex |-> originalIndexAt(a, fromIndex),
                     from |-> fromIndex, index |-> toIndex, item |-> a.array[fromIndex + 1]],
      a |-> a]

moveItem(a, item, toIndex, fn) ==
  LET fromIndex == findIndexFrom(a, item, toIndex, fn)
  IN [operation |-> [op |-> ARRAY_DIFF_OP.MOVE,
                     originalIndex |-> originalIndexAt(a, fromIndex),
                     from |-> fromIndex, index |-> toIndex, item |-> a.array[fromIndex + 1]],
      a |-> [array |-> SpliceIn(SpliceOut(a.array, fromIndex), toIndex, a.array[fromIndex + 1]),
             originalIndices |-> SpliceIn(SpliceOut(a.originalIndices, fromIndex), toIndex,
                                          a.originalIndices[fromIndex + 1])]]

RECURSIVE removeItemsAfter(_, _)
removeItemsAfter(a, index) ==
  IF Len(a.array) > index
  THEN LET r == removeItem(a, index)
           rest == removeItemsAfter(r.a, index)
       IN [operations |-> <<r.operation>> \o rest.operations, a |-> rest.a]
  ELSE [operations |-> <<>>, a |-> a]

\* the state of the for loop of arraysDiffSequence: the working array, the loop
\* index and the sequence of operations pushed so far
DiffStart(oldArray) ==
  [a |-> ArrayWithOriginalIndices(oldArray), index |-> 0, sequence |-> <<>>]

\* an iteration that steps the index back after an ADD as it does after a REMOVE
DiffIteration_redo(st, newArray, fn) ==
  IF isRemoval(st.a, st.index, newArray, fn)
  THEN LET r == removeItem(st.a, st.index)
       IN [a |-> r.a, index |-> st.index, sequence |-> Append(st.sequence, r.operation)]
  ELSE IF isNoop(st.a, st.index, newArray, fn)
  THEN [a |-> st.a, index |-> st.index + 1,
        sequence |-> Append(st.sequence, noopItem(st.a, st.index))]
  ELSE IF isAddition(st.a, newArray[st.index + 1], st.index, fn)
  THEN LET r == addItem(st.a, newArray[st.index + 1], st.index)
       IN [a |-> r.a, index |-> st.index, sequence |-> Append(st.sequence, r.operation)]
  ELSE LET r == moveItem(st.a, newArray[st.index + 1], st.index, fn)
       IN [a |-> r.a, index |-> st.index + 1, sequence |-> Append(st.sequence, r.operation)]

\* one iteration of the loop body, at st.index < newArray.length
DiffIteration(st, newArray, fn) ==
  IF isRemoval(st.a, st.index, newArray, fn)
  THEN LET r == removeItem(st.a, st.index)      \* index--; continue (then index++)
       IN [a |-> r.a, index |-> st.index, sequence |-> Append(st.sequence, r.operation)]
  ELSE IF isNoop(st.a, st.index, newArray, fn)
  THEN [a |-> st.a, index |-> st.index + 1,
        sequence |-> Append(st.sequence, noopItem(st.a, st.index))]
  ELSE IF isAddition(st.a, newArray[st.index + 1], st.index, fn)
  THEN LET r == addItem(st.a, newArray[st.index + 1], st.index)
       IN [a |-> r.a, index |-> st.index + 1, sequence |-> Append(st.sequence, r.operation)]
  ELSE LET r == moveItem(st.a, newArray[st.index + 1], st.index, fn)
       IN [a |-> r.a, index |-> st.index + 1, sequence |-> Append(st.sequence, r.operation)]

\* sequence.push(...array.removeItemsAfter(newArray.length))
DiffTail(st, newArray) ==
  LET r == removeItemsAfter(st.a, Len(newArray))
  IN [a |-> r.a, index |-> st.index, sequence |-> st.sequence \o r.operations]

RECURSIVE DiffLoop(_, _, _)
DiffLoop(st, newArray, fn) ==
  IF st.index < Len(newArray) THEN DiffLoop(DiffIteration(st, newArray, fn), newArray, fn)
  ELSE st

arraysDiffSequence(oldArray, newArray, fn) ==
  DiffTail(DiffLoop(DiffStart(oldArray), newArray, fn), newArray).sequence

(***************************************************************************)
(* scheduler.js, and the part of the event loop it relies on: the          *)
(* microtask queue, promises returned by jobs, and setTimeout.             *)
(*   sch.isScheduled, sch.jobs   the module's two variables                *)
(*   sch.microtasks              the pending microtasks, in order          *)
(*   sch.started                 the ids of the jobs called so far         *)
(*   sch.submitted               the ids of the jobs pushed so far         *)
(*   sch.pending                 jobs whose returned promise is unsettled  *)
(*   sch.reported                jobs whose failure reached console.error  *)
(*   sch.uncaught                jobs whose exception left processJobs     *)
(***************************************************************************)
JobKinds == {"sync", "throw", "resolve", "reject", "spawn"}

SchedulerInit ==
  [isScheduled |-> FALSE, jobs |-> <<>>, microtasks |-> <<>>, started |-> <<>>,
   submitted |-> <<>>, pending |-> {}, reported |-> {}, uncaught |-> <<>>,
   inEngine |-> FALSE, ticks |-> <<>>, nextId |-> 1]

\* scheduleUpdate with the drain run on the spot instead of in a microtask
RECURSIVE processJobs(_)
scheduleUpdate_inline(s) ==
  IF s.isScheduled THEN s ELSE processJobs([s EXCEPT !.isScheduled = TRUE])

scheduleUpdate(s) ==
  IF s.isScheduled THEN s
  ELSE [s EXCEPT !.isScheduled = TRUE,
                 !.microtasks = Append(@, [run |-> "processJobs"])]

enqueueJob_front(s, job) ==
  scheduleUpdate([s EXCEPT !.jobs = <<[job EXCEPT !.id = s.nextId]>> \o @,
                           !.submitted = Append(@, s.nextId),
                           !.nextId = @ + 1])

enqueueJob(s, job) ==
  scheduleUpdate([s EXCEPT !.jobs = Append(@, [job EXCEPT !.id = s.nextId]),
                           !.submitted = Append(@, s.nextId),
                           !.nextId = @ + 1])

\* const result = job(): what calling the job does to the scheduler's world.
\* A job of kind "throw" does not return; the others return a value or a promise.
CallJob(s, job) ==
  LET s1 == [s EXCEPT !.started = Append(@, [id |-> job.id, inEngine |-> s.inEngine,
                                             job |-> job])]
  IN CASE job.kind = "spawn" -> enqueueJob(s1, [id |-> 0, kind |-> "sync"])
       [] job.kind \in {"resolve", "reject"} -> [s1 EXCEPT !.pending = @ \cup {job}]
       [] OTHER -> s1

\* a drain that waits for the promise a job returns: it stops after such a job
processJobs_await(s) ==
  LET RECURSIVE drain(_)
      drain(t) ==
        IF Len(t.jobs) > 0
        THEN LET job == Head(t.jobs)
                 t1 == CallJob([t EXCEPT !.jobs = Tail(@)], job)
             IN IF job.kind = "throw" THEN [t1 EXCEPT !.uncaught = Append(@, job.id)]
                ELSE IF job.kind \in {"resolve", "reject"} THEN t1
                ELSE drain(t1)
        ELSE [t EXCEPT !.isScheduled = FALSE]
  IN drain(s)

processJobs(s) ==
  IF Len(s.jobs) > 0
  THEN LET job == Head(s.jobs)
           s1 == CallJob([s EXCEPT !.jobs = Tail(@)], job)
       IN IF job.kind = "throw"
          THEN [s1 EXCEPT !.uncaught = Append(@, job.id)]   \* the exception leaves the loop
          ELSE processJobs(s1)
  ELSE [s EXCEPT !.isScheduled = FALSE]

\* flushPromises(): new Promise((resolve) => setTimeout(resolve))
flushPromises(s) == [s EXCEPT !.ticks = Append(@, [queuedAtCall |-> s.jobs, resolved |-> FALSE,
                                                    startedAtResolve |-> <<>>])]

nextTick(s) == flushPromises(scheduleUpdate(s))

(***************************************************************************)
(* The live environment (the browser DOM) and the mutable side of the      *)
(* virtual nodes.  A world W is a record:                                  *)
(*   W.nodes      the DOM nodes ever created; a node's id is its position  *)
(*   W.el         vdom.el         of every virtual node, by object id      *)
(*   W.listeners  vdom.listeners  of every virtual node, by object id      *)
(*   W.component  vdom.component  of every virtual node, by object id      *)
(*   W.inst       the component instances ever constructed                 *)
(*   W.sch        the scheduler (above)                                    *)
(*   W.bound      the boundHandler closures made by addEventListener       *)
(*   W.nextObj, W.nextFn   the next fresh object / function identity       *)
(*   W.hSlotCalled the module-level flag of h.js                           *)
(*   W.error      the exception in flight ("" when none)                   *)
(*   W.muts       how many mutations of each kind the DOM has seen         *)
(*   W.reused     the pairs patchDOM has found equal, with the old         *)
(*                node's references at that moment                         *)
(*   W.mounted    the instances in the order in which mount() completed    *)
(* A virtual node is an immutable record (type, tag, props, value,         *)
(* children) carrying the identity `id` of the JavaScript object; two      *)
(* occurrences of one object in a tree share their id, and so their el.    *)
(***************************************************************************)
Absent == 0                 \* an undefined el / component / parentNode
NullIndex == -1000          \* the index argument null ("append")
NoVdom == [type |-> "null"] \* this.#vdom = null

Get(f, k) == IF k \in DOMAIN f THEN f[k] ELSE Absent
Put(f, k, v) == (k :> v) @@ f
Drop(f, k) == [x \in DOMAIN f \ {k} |-> f[x]] @@ EmptyMap
SetRef(f, k, v) == IF v = Absent THEN Drop(f, k) ELSE Put(f, k, v)
Range(s) == {s[i] : i \in DOMAIN s}

Container == 1              \* the element the application mounts into

DomNode(kind, tag, value) ==
  [kind |-> kind, tag |-> tag, value |-> value, attrs |-> EmptyMap,
   classList |-> {}, style |-> EmptyMap,
   touched |-> [attrs |-> <<>>, classes |-> <<>>, styles |-> <<>>],
   handlers |-> {}, childNodes |-> <<>>, parentNode |-> Absent]

WorldInit ==
  [nodes |-> << [DomNode("element", "body", "") EXCEPT !.childNodes = <<Container + 1>>],
                [DomNode("element", "hr", "") EXCEPT !.parentNode = Container] >>,
   el |-> EmptyMap, listeners |-> EmptyMap, component |-> EmptyMap,
   inst |-> <<>>, sch |-> SchedulerInit, bound |-> <<>>,
   nextObj |-> 1, nextFn |-> 10, hSlotCalled |-> FALSE, error |-> "",
   muts |-> [structure |-> 0, attribute |-> 0, text |-> 0, listener |-> 0],
   reused |-> {}, mounted |-> <<>>]

Ok(W) == W.error = ""
Throw(W, message) == IF Ok(W) THEN [W EXCEPT !.error = message] ELSE W

IndexOf(s, x) ==      \* Array.prototype.indexOf
  LET hits == {i \in 1..Len(s) : s[i] = x}
  IN IF hits = {} THEN -1 ELSE (CHOOSE i \in hits : \A j \in hits : i <= j) - 1

IsElement(W, n) == n # Absent /\ W.nodes[n].kind = "element"

\* the node leaves its parent's childNodes, if it has a parent
Detach(W, n) ==
  LET parent == W.nodes[n].parentNode
  IN IF parent = Absent THEN W
     ELSE [W EXCEPT !.nodes[parent].childNodes = SelectSeq(@, LAMBDA c : c # n),
                    !.nodes[n].parentNode = Absent,
                    !.muts.structure = @ + 1]

\* el.remove()
DomRemove(W, n) ==
  IF ~ Ok(W) THEN W
  ELSE IF n = Absent THEN Throw(W, "TypeError")
  ELSE Detach(W, n)

\* parentEl.append(el)
DomAppend(W, parentEl, n) ==
  IF ~ Ok(W) THEN W
  ELSE IF ~ IsElement(W, parentEl) THEN Throw(W, "TypeError")
  ELSE LET W1 == Detach(W, n)
       IN [W1 EXCEPT !.nodes[parentEl].childNodes = Append(@, n),
                     !.nodes[n].parentNode = parentEl,
                     !.muts.structure = @ + 1]

\* parentEl.insertBefore(el, reference); an undefined reference appends, and a
\* node inserted before itself stays where it is
DomInsertBefore(W, parentEl, n, reference) ==
  IF ~ Ok(W) THEN W
  ELSE IF ~ IsElement(W, parentEl) \/ n = Absent THEN Throw(W, "TypeError")
  ELSE IF reference = Absent THEN DomAppend(W, parentEl, n)
  ELSE IF reference = n THEN [W EXCEPT !.muts.structure = @ + 1]
  ELSE IF W.nodes[reference].parentNode # parentEl THEN Throw(W, "NotFoundError")
  ELSE LET W1 == Detach(W, n)
           at == IndexOf(W1.nodes[parentEl].childNodes, reference)
       IN [W1 EXCEPT !.nodes[parentEl].childNodes = SpliceIn(@, at, n),
                     !.nodes[n].parentNode = parentEl,
                     !.muts.structure = @ + 1]

\* document.createTextNode / document.createElement: the id of the new node is
\* Len(W.nodes) + 1
DomCreate(W, node) == [W EXCEPT !.nodes = Append(@, node)]

(***************************************************************************)
(* Object identity of virtual nodes: every node a render or a caller       *)
(* creates gets a fresh id; nodes that already have one (the external      *)
(* content a component was handed) keep it.                                *)
(***************************************************************************)
WithId(v, n) == ("id" :> n) @@ v

RECURSIVE Stamp(_, _), StampAll(_, _)
Stamp(v, next) ==
  IF "id" \in DOMAIN v THEN [tree |-> v, next |-> next]
  ELSE IF "children" \in DOMAIN v
  THEN LET kids == StampAll(v.children, next + 1)
       IN [tree |-> [WithId(v, next) EXCEPT !.children = kids.trees], next |-> kids.next]
  ELSE [tree |-> WithId(v, next), next |-> next + 1]

StampAll(children, next) ==
  IF children = <<>> THEN [trees |-> <<>>, next |-> next]
  ELSE LET first == Stamp(Head(children), next)
           rest == StampAll(Tail(children), first.next)
       IN [trees |-> <<first.tree>> \o rest.trees, next |-> rest.next]

(***************************************************************************)
(* h.js: extractChildren                                                   *)
(***************************************************************************)
RECURSIVE extractChildren(_), extractChildrenOf(_)
extractChildrenOf(children) ==
  IF children = <<>> THEN <<>>
  ELSE LET child == Head(children)
       IN (IF child.type = DOM_TYPES.FRAGMENT THEN extractChildren(child) ELSE <<child>>)
          \o extractChildrenOf(Tail(children))

\* a variant that replaces a fragment child by its children without flattening them
extractChildren_shallow(vdom) ==
  LET RECURSIVE pushEach(_)
      pushEach(children) ==
        IF children = <<>> THEN <<>>
        ELSE (IF Head(children).type = DOM_TYPES.FRAGMENT
              THEN Head(children).children ELSE <<Head(children)>>)
             \o pushEach(Tail(children))
  IN IF "children" \notin DOMAIN vdom THEN <<>> ELSE pushEach(vdom.children)

extractChildren(vdom) ==
  IF "children" \notin DOMAIN vdom THEN <<>> ELSE extractChildrenOf(vdom.children)

(***************************************************************************)
(* traverse-dom.js and slots.js                                            *)
(***************************************************************************)
shouldSkipBranch(node) == node.type = DOM_TYPES.COMPONENT

\* traverseDFS with processNode = insertViewInSlot, on a node that is not itself
\* replaced: its children array is walked by forEach while insertViewInSlot
\* splices it, so an entry that follows a removed slot is never visited.
\* The walk goes on into the replaced slot's own default children, never into
\* the fragment that replaced it.
RECURSIVE traverseDFS(_, _), forEachChild(_, _, _, _), forEachDefault(_, _, _, _)
traverseDFS(vdom, externalContent) ==
  IF shouldSkipBranch(vdom) THEN vdom
  ELSE IF "children" \notin DOMAIN vdom THEN vdom
  ELSE [vdom EXCEPT !.children = forEachChild(@, 0, Len(@), externalContent)]

\* the walk over the children array of a slot node that has been processed.
\* hFragment(views) was given a copy of that array beforehand (withoutNulls
\* filters), so a slot that is a direct default child is spliced in the
\* array only and stays in the copy, while the nodes of the copy are the
\* objects the walk goes into.  positions[i + 1] is where the entry now at
\* index i of the array is in the copy.
forEachDefault(copy, positions, i, externalContent) ==
  IF i >= Len(positions) THEN copy
  ELSE LET p == positions[i + 1] + 1
           node == copy[p]
       IN IF shouldSkipBranch(node) THEN forEachDefault(copy, positions, i + 1, externalContent)
          ELSE IF node.type = DOM_TYPES.SLOT
          THEN forEachDefault(
                 [copy EXCEPT ![p] = [node EXCEPT !.children =
                                        forEachChild(@, 0, Len(@), externalContent)]],
                 IF Len(externalContent) > 0 \/ Len(node.children) > 0 THEN positions
                 ELSE SpliceOut(positions, i),
                 i + 1, externalContent)
          ELSE forEachDefault([copy EXCEPT ![p] = traverseDFS(node, externalContent)],
                              positions, i + 1, externalContent)

defaultChildren(children, externalContent) ==
  forEachDefault(children, indicesUpTo(Len(children)), 0, externalContent)

forEachChild(children, i, length, externalContent) ==
  IF i >= length \/ i >= Len(children) THEN children
  ELSE LET node == children[i + 1]
       IN IF shouldSkipBranch(node) THEN forEachChild(children, i + 1, length, externalContent)
          ELSE IF node.type = DOM_TYPES.SLOT
          THEN LET defaultContent ==
                     defaultChildren(node.children, externalContent)
                   views == IF Len(externalContent) > 0 THEN externalContent ELSE defaultContent
               IN IF Len(views) > 0
                  THEN forEachChild([children EXCEPT ![i + 1] = hFragment(views)],
                                    i + 1, length, externalContent)
                  ELSE forEachChild(SpliceOut(children, i), i + 1, length, externalContent)
          ELSE forEachChild([children EXCEPT ![i + 1] = traverseDFS(node, externalContent)],
                            i + 1, length, externalContent)

fillSlots(vdom, externalContent) == traverseDFS(vdom, externalContent)

RECURSIVE HasSlot(_)
HasSlot(v) ==
  \/ v.type = DOM_TYPES.SLOT
  \/ "children" \in DOMAIN v /\ \E k \in 1..Len(v.children) : HasSlot(v.children[k])

(***************************************************************************)
(* The component classes of the model (the arguments of defineComponent):  *)
(*   Counter  a <span> showing state.count, with an inline click handler   *)
(*   Multi    a fragment of props.n <b> elements (n = 0, 1, 2)             *)
(*   Card     the Card of the slots example: a <div> with a <header> and a *)
(*            <main>, each around one slot with default content            *)
(*   Box      a <section> around one slot without default content          *)
(***************************************************************************)
Digits == <<"0", "1", "2", "3", "4">>
CountOf(str) == CHOOSE n \in 0..4 : Digits[n + 1] = str

StateFn(name, props) == [count |-> 0]

RenderFn(name, props, state, fn) ==
  CASE name = "Counter" ->
         h("span", Props(Undefined, EmptyMap, ("click" :> fn)),
           <<JsString(Digits[state.count + 1])>>)
    [] name = "Multi" ->
         hFragment(SubSeq(<<h("b", NoProps, <<>>), h("b", NoProps, <<>>)>>, 1,
                          IF "n" \in DOMAIN props THEN CountOf(props.n) ELSE 0))
    [] name = "Card" ->
         h("div", NoProps,
           <<h("header", NoProps, <<hSlot(<<hString("Default Header")>>)>>),
             h("main", NoProps, <<hSlot(<<hString("Default Content")>>)>>)>>)
    [] name = "Box" ->
         h("section", NoProps, <<hSlot(<<>>)>>)
    [] name = "Rows" ->
         hFragment(<<h("ul", NoProps,
                       SubSeq(<<h("i", NoProps, <<>>), h("b", NoProps, <<>>)>>,
                              3 - (IF "n" \in DOMAIN props THEN CountOf(props.n) ELSE 0), 2))>>)

\* how many function objects one call of the render function creates
ClosuresOf(name) == IF name = "Counter" THEN 1 ELSE 0

(***************************************************************************)
(* events.js and attributes.js                                             *)
(***************************************************************************)
EventNames == <<"click", "input">>

addEventListener(W, eventName, handler, el, hostComponent) ==
  LET boundHandler == Len(W.bound) + 1
  IN IF ~ Ok(W) THEN W
     ELSE IF el = Absent THEN Throw(W, "TypeError")
     ELSE
     [W EXCEPT !.bound = Append(@, [handler |-> handler, hostComponent |-> hostComponent]),
               !.nodes[el].handlers = @ \cup {[event |-> eventName, listener |-> boundHandler]},
               !.muts.listener = @ + 1]

\* el.removeEventListener(eventName, listener)
DomRemoveListener(W, el, eventName, listener) ==
  IF ~ Ok(W) THEN W
  ELSE IF el = Absent THEN Throw(W, "TypeError")
  ELSE IF [event |-> eventName, listener |-> listener] \in W.nodes[el].handlers
  THEN [W EXCEPT !.nodes[el].handlers = @ \ {[event |-> eventName, listener |-> listener]},
                 !.muts.listener = @ + 1]
  ELSE W

RECURSIVE addEachListener(_, _, _, _, _, _)
addEachListener(W, names, events, el, hostComponent, addedListeners) ==
  IF names = <<>> THEN [W |-> W, addedListeners |-> addedListeners]
  ELSE IF Head(names) \notin DOMAIN events
  THEN addEachListener(W, Tail(names), events, el, hostComponent, addedListeners)
  ELSE LET Bound(W1) ==
             addEachListener(W1, Tail(names), events, el, hostComponent,
                             Put(addedListeners, Head(names), Len(W1.bound)))
       IN Bound(addEventListener(W, Head(names), events[Head(names)], el, hostComponent))

addEventListeners(W, listeners, el, hostComponent) ==
  addEachListener(W, EventNames, listeners, el, hostComponent, EmptyMap)

RECURSIVE removeEachListener(_, _, _, _)
removeEachListener(W, names, listeners, el) ==
  IF names = <<>> THEN W
  ELSE IF Head(names) \notin DOMAIN listeners THEN removeEachListener(W, Tail(names), listeners, el)
  ELSE removeEachListener(DomRemoveListener(W, el, Head(names), listeners[Head(names)]),
                          Tail(names), listeners, el)

removeEventListeners(W, listeners, el) == removeEachListener(W, EventNames, listeners, el)

\* utils/strings.js: str.trim() and the two tests on it
Space == " "

RECURSIVE trimStart(_)
trimStart(str) ==
  IF str # <<>> /\ Head(str) = Space THEN trimStart(Tail(str)) ELSE str

RECURSIVE trimEnd(_)
trimEnd(str) ==
  IF str # <<>> /\ str[Len(str)] = Space THEN trimEnd(SubSeq(str, 1, Len(str) - 1)) ELSE str

trim(str) == trimEnd(trimStart(str))

isNotEmptyString(str) == str # <<>>

isNotBlankOrEmptyString(str) == isNotEmptyString(trim(str))

\* the class attribute as the DOM reads it: the set of its space-separated tokens
DomTokens(text) ==
  { SubSeq(text, i, j) : <<i, j>> \in
      { p \in (1..Len(text)) \X (1..Len(text)) :
          /\ p[1] <= p[2]
          /\ \A k \in p[1]..p[2] : text[k] # Space
          /\ p[1] = 1 \/ text[p[1] - 1] = Space
          /\ p[2] = Len(text) \/ text[p[2] + 1] = Space } }

\* DOMTokenList add() and remove() refuse an empty token and one with a space
DomTokenError(tokens) ==
  IF \E i \in 1..Len(tokens) : tokens[i] = <<>> THEN "SyntaxError"
  ELSE IF \E i \in 1..Len(tokens) : Space \in Range(tokens[i]) THEN "InvalidCharacterError"
  ELSE ""

DomClassListAdd(W, el, tokens) ==
  IF ~ Ok(W) THEN W
  ELSE IF el = Absent THEN Throw(W, "TypeError")
  ELSE IF DomTokenError(tokens) # "" THEN Throw(W, DomTokenError(tokens))
  ELSE [W EXCEPT !.nodes[el].classList = @ \cup Range(tokens),
                 !.nodes[el].touched.classes = @ \o tokens,
                 !.muts.attribute = @ + 1]

DomClassListRemove(W, el, tokens) ==
  IF ~ Ok(W) THEN W
  ELSE IF el = Absent THEN Throw(W, "TypeError")
  ELSE IF DomTokenError(tokens) # "" THEN Throw(W, DomTokenError(tokens))
  ELSE [W EXCEPT !.nodes[el].classList = @ \ Range(tokens),
                 !.nodes[el].touched.classes = @ \o tokens,
                 !.muts.attribute = @ + 1]

\* el.className = text
DomSetClassName(W, el, text) ==
  IF ~ Ok(W) THEN W
  ELSE IF el = Absent THEN Throw(W, "TypeError")
  ELSE [W EXCEPT !.nodes[el].classList = DomTokens(text),
                 !.muts.attribute = @ + 1]

setClass(W, el, className) ==
  IF className.kind = "string" THEN DomSetClassName(DomSetClassName(W, el, <<>>), el, className.text)
  ELSE IF className.kind = "array"
  THEN DomClassListAdd(DomSetClassName(W, el, <<>>), el, className.list)
  ELSE DomSetClassName(W, el, <<>>)

setStyle(W, el, name, value) ==
  IF ~ Ok(W) THEN W
  ELSE IF el = Absent THEN Throw(W, "TypeError")
  ELSE [W EXCEPT !.nodes[el].style = Put(@, name, value),
                 !.nodes[el].touched.styles = Append(@, name),
                 !.muts.attribute = @ + 1]

\* el.style[name] = null takes the property off the inline style
removeStyle(W, el, name) ==
  IF ~ Ok(W) THEN W
  ELSE IF el = Absent THEN Throw(W, "TypeError")
  ELSE [W EXCEPT !.nodes[el].style = Drop(@, name),
                 !.nodes[el].touched.styles = Append(@, name),
                 !.muts.attribute = @ + 1]

removeAttribute(W, el, name) ==
  IF ~ Ok(W) THEN W
  ELSE IF el = Absent THEN Throw(W, "TypeError")
  ELSE [W EXCEPT !.nodes[el].attrs = Drop(@, name),
                 !.nodes[el].touched.attrs = Append(@, name),
                 !.muts.attribute = @ + 1]

\* value == null holds of null and of undefined
setAttribute(W, el, name, value) ==
  IF ~ Ok(W) THEN W
  ELSE IF el = Absent THEN Throw(W, "TypeError")
  ELSE IF value = Undefined THEN removeAttribute(W, el, name)
  ELSE [W EXCEPT !.nodes[el].attrs = Put(@, name, value),
                 !.nodes[el].touched.attrs = Append(@, name),
                 !.muts.attribute = @ + 1]

AttrNames == <<"id", "title">>
StyleNames == <<"color", "margin">>

RECURSIVE setEachStyle(_, _, _, _)
setEachStyle(W, names, el, style) ==
  IF names = <<>> THEN W
  ELSE IF Head(names) \notin DOMAIN style THEN setEachStyle(W, Tail(names), el, style)
  ELSE setEachStyle(setStyle(W, el, Head(names), style[Head(names)]), Tail(names), el, style)

\* if (className): every array is truthy, of the strings only the empty one is not
Truthy(className) ==
  className.kind = "array" \/ (className.kind = "string" /\ className.text # <<>>)

RECURSIVE setEachAttribute(_, _, _, _)
setEachAttribute(W, names, el, attrs) ==
  IF names = <<>> THEN W
  ELSE IF Head(names) \notin DOMAIN attrs THEN setEachAttribute(W, Tail(names), el, attrs)
  ELSE setEachAttribute(setAttribute(W, el, Head(names), attrs[Head(names)]),
                        Tail(names), el, attrs)

setAttributes(W, el, attrs) ==
  setEachAttribute(
    setEachStyle(IF Truthy(attrs.class) THEN setClass(W, el, attrs.class) ELSE W,
                 StyleNames, el, attrs.style),
    AttrNames, el, attrs.attrs)

(***************************************************************************)
(* utils/props.js                                                          *)
(***************************************************************************)
extractPropsAndEvents(vdom) == [props |-> vdom.props.attrs, events |-> vdom.props.on]

(***************************************************************************)
(* component.js: the instance side of defineComponent.  An instance is an  *)
(* entry of W.inst: [def, props, state, eventHandlers, parentComponent,    *)
(* children, vdom, isMounted, hostEl]; a hostComponent argument is its     *)
(* position in W.inst, or Absent for null.                                 *)
(***************************************************************************)
isComponent(vdom) == "tag" \in DOMAIN vdom /\ vdom.tag \in ComponentNames

\* new Component(props, eventHandlers, parentComponent); setExternalContent(children)
NewComponent(vdom, hostComponent) ==
  LET pe == extractPropsAndEvents(vdom)
  IN [def |-> vdom.tag, props |-> pe.props, state |-> StateFn(vdom.tag, pe.props),
      eventHandlers |-> pe.events, parentComponent |-> hostComponent,
      children |-> vdom.children, vdom |-> NoVdom, isMounted |-> FALSE, hostEl |-> Absent]

\* render(): the component's render function, then fillSlots if it called hSlot
render(W, c) ==
  LET inst == W.inst[c]
      Stamped(W1, st) ==
        [W |-> [W1 EXCEPT !.hSlotCalled = FALSE, !.nextObj = st.next], vdom |-> st.tree]
      Rendered(W1, raw) ==
        IF W1.hSlotCalled /\ raw.type = DOM_TYPES.SLOT
        THEN [W |-> Throw(W1, "TypeError"), vdom |-> NoVdom]     \* parent.children of null
        ELSE Stamped(W1, Stamp(IF W1.hSlotCalled THEN fillSlots(raw, inst.children) ELSE raw,
                               W1.nextObj))
      Called(raw) ==
        Rendered([W EXCEPT !.nextFn = @ + ClosuresOf(inst.def),
                           !.hSlotCalled = @ \/ HasSlot(raw)], raw)
  IN Called(RenderFn(inst.def, inst.props, inst.state, W.nextFn))

\* get elements(): [threw, els]; threw when a component child has no instance
RECURSIVE elements(_, _), flatMapElements(_, _)
flatMapElements(W, children) ==
  IF children = <<>> THEN [threw |-> FALSE, els |-> <<>>]
  ELSE LET child == Head(children)
           Concat(first, rest) ==
             [threw |-> first.threw \/ rest.threw, els |-> first.els \o rest.els]
       IN Concat(IF child.type = DOM_TYPES.COMPONENT
                 THEN IF Get(W.component, child.id) = Absent
                      THEN [threw |-> TRUE, els |-> <<>>]
                      ELSE elements(W, Get(W.component, child.id))
                 ELSE [threw |-> FALSE, els |-> <<Get(W.el, child.id)>>],
                 flatMapElements(W, Tail(children)))

elements(W, c) ==
  LET vdom == W.inst[c].vdom
  IN IF vdom = NoVdom THEN [threw |-> FALSE, els |-> <<>>]
     ELSE IF vdom.type = DOM_TYPES.FRAGMENT THEN flatMapElements(W, extractChildren(vdom))
     ELSE [threw |-> FALSE, els |-> <<Get(W.el, vdom.id)>>]

\* get firstElement(): elements[0], undefined for an empty list
firstElement(W, c) ==
  LET First(e) == [threw |-> e.threw, el |-> IF e.els = <<>> THEN Absent ELSE e.els[1]]
  IN First(elements(W, c))

\* get offset(): the position of the first element among hostEl.children (the
\* element children only)
offset(W, c) ==
  LET inst == W.inst[c]
      IndexOfFirst(f, children) == [threw |-> f.threw, value |-> IndexOf(children, f.el)]
  IN IF inst.vdom = NoVdom THEN [threw |-> TRUE, value |-> 0]
     ELSE IF inst.vdom.type = DOM_TYPES.FRAGMENT
     THEN IF inst.hostEl = Absent THEN [threw |-> TRUE, value |-> 0]
          ELSE IndexOfFirst(firstElement(W, c),
                            SelectSeq(W.nodes[inst.hostEl].childNodes,
                                      LAMBDA n : W.nodes[n].kind = "element"))
     ELSE [threw |-> FALSE, value |-> 0]

\* hostComponent?.offset ?? 0
HostOffset(W, hostComponent) ==
  IF hostComponent = Absent THEN [threw |-> FALSE, value |-> 0] ELSE offset(W, hostComponent)

\* the job a mountDOM / destroyDOM call hands to enqueueJob
HookJob(hook, c) == [id |-> 0, kind |-> "sync", hook |-> hook, component |-> c]

\* a mountDOM, patchDOM or destroyDOM call is on the stack between Enter and Leave
Enter(W) == [W EXCEPT !.sch.inEngine = TRUE]
Leave(W, R) == [R EXCEPT !.sch.inEngine = W.sch.inEngine]

(***************************************************************************)
(* mount-dom.js                                                            *)
(***************************************************************************)
\* insert without the index: the unit is appended
insert_append(W, el, parentEl, index) ==
  IF ~ Ok(W) THEN W ELSE DomAppend(W, parentEl, el)

insert(W, el, parentEl, index) ==
  IF ~ Ok(W) THEN W
  ELSE IF index = NullIndex THEN DomAppend(W, parentEl, el)
  ELSE IF index < 0 THEN Throw(W, "Index must be a positive integer")
  ELSE IF ~ IsElement(W, parentEl) THEN Throw(W, "TypeError")
  ELSE LET children == W.nodes[parentEl].childNodes
       IN IF index >= Len(children) THEN DomAppend(W, parentEl, el)
          ELSE DomInsertBefore(W, parentEl, el, children[index + 1])

createTextNode(W, vdom, parentEl, index) ==
  LET textNode == Len(W.nodes) + 1
  IN insert([DomCreate(W, DomNode("text", "", vdom.value)) EXCEPT !.el = Put(@, vdom.id, textNode)],
            textNode, parentEl, index)

addProps(W, el, vdom, hostComponent) ==
  LET pe == extractPropsAndEvents(vdom)
      Listening(added) ==
        setAttributes([added.W EXCEPT !.listeners = Put(@, vdom.id, added.addedListeners)],
                      el, vdom.props)
  IN Listening(addEventListeners(W, pe.events, el, hostComponent))

RECURSIVE mountDOM(_, _, _, _, _), mountEach(_, _, _, _), mountFragmentChildren(_, _, _, _, _),
          destroyDOM(_, _), destroyEach(_, _), patchDOM(_, _, _, _, _)

\* children.forEach((child) => mountDOM(child, element, null, hostComponent))
mountEach(W, children, element, hostComponent) ==
  IF ~ Ok(W) \/ children = <<>> THEN W
  ELSE mountEach(mountDOM(W, Head(children), element, NullIndex, hostComponent),
                 Tail(children), element, hostComponent)

createElementNode(W, vdom, parentEl, index, hostComponent) ==
  LET element == Len(W.nodes) + 1
  IN insert(mountEach([addProps(DomCreate(W, DomNode("element", vdom.tag, "")), element, vdom,
                                hostComponent)
                         EXCEPT !.el = Put(@, vdom.id, element)],
                      vdom.children, element, hostComponent),
            element, parentEl, index)

\* the for loop of createFragmentNodes, with its running index
mountFragmentChildren(W, children, parentEl, index, hostComponent) ==
  IF ~ Ok(W) \/ children = <<>> THEN W
  ELSE LET child == Head(children)
           Step(W1, next) ==
             mountFragmentChildren(W1, Tail(children), parentEl, next, hostComponent)
           Counted(W1, els) ==
             IF els.threw THEN Throw(W1, "TypeError") ELSE Step(W1, index + Len(els.els))
           Mounted(W1) ==
             IF ~ Ok(W1) THEN W1
             ELSE IF index = NullIndex THEN Step(W1, NullIndex)
             ELSE IF child.type = DOM_TYPES.FRAGMENT THEN Step(W1, index + Len(child.children))
             ELSE IF child.type = DOM_TYPES.COMPONENT
             THEN Counted(W1, elements(W1, Get(W1.component, child.id)))
             ELSE Step(W1, index + 1)
       IN Mounted(mountDOM(W, child, parentEl, index, hostComponent))

createFragmentNodes(W, vdom, parentEl, index, hostComponent) ==
  mountFragmentChildren([W EXCEPT !.el = Put(@, vdom.id, parentEl)], vdom.children,
                        parentEl, index, hostComponent)

\* Component.mount(hostEl, index)
mount(W, c, hostEl, index) ==
  IF W.inst[c].isMounted THEN Throw(W, "Component is already mounted")
  ELSE LET Mounted(W1) ==
             IF Ok(W1) THEN [W1 EXCEPT !.inst[c].isMounted = TRUE, !.inst[c].hostEl = hostEl,
                                       !.mounted = Append(@, c)]
             ELSE W1
           Rendered(r) ==
             IF Ok(r.W)
             THEN Mounted(mountDOM([r.W EXCEPT !.inst[c].vdom = r.vdom], r.vdom, hostEl, index, c))
             ELSE r.W
       IN Rendered(render(W, c))

createComponentNode(W, vdom, parentEl, index, hostComponent) ==
  LET component == Len(W.inst) + 1
      Referenced(W1, first) ==
        IF first.threw THEN Throw(W1, "TypeError")
        ELSE [W1 EXCEPT !.component = Put(@, vdom.id, component),
                        !.el = SetRef(@, vdom.id, first.el)]
      Mounted(W1) == IF ~ Ok(W1) THEN W1 ELSE Referenced(W1, firstElement(W1, component))
  IN Mounted(mount([W EXCEPT !.inst = Append(@, NewComponent(vdom, hostComponent))],
                   component, parentEl, index))

\* mountDOM with the hook of a component queued before the component is mounted
mountDOM_hookFirst(W, vdom, parentEl, index, hostComponent) ==
  IF ~ Ok(W) THEN W
  ELSE Leave(W,
    CASE vdom.type = DOM_TYPES.TEXT -> createTextNode(Enter(W), vdom, parentEl, index)
      [] vdom.type = DOM_TYPES.ELEMENT ->
           createElementNode(Enter(W), vdom, parentEl, index, hostComponent)
      [] vdom.type = DOM_TYPES.FRAGMENT ->
           createFragmentNodes(Enter(W), vdom, parentEl, index, hostComponent)
      [] vdom.type = DOM_TYPES.COMPONENT ->
           createComponentNode(
             [Enter(W) EXCEPT !.sch = enqueueJob(@, HookJob("onMounted", Len(W.inst) + 1))],
             vdom, parentEl, index, hostComponent)
      [] OTHER -> Throw(Enter(W), "Can't mount DOM of type"))

mountDOM(W, vdom, parentEl, index, hostComponent) ==
  IF ~ Ok(W) THEN W
  ELSE Leave(W,
    CASE vdom.type = DOM_TYPES.TEXT -> createTextNode(Enter(W), vdom, parentEl, index)
      [] vdom.type = DOM_TYPES.ELEMENT ->
           createElementNode(Enter(W), vdom, parentEl, index, hostComponent)
      [] vdom.type = DOM_TYPES.FRAGMENT ->
           createFragmentNodes(Enter(W), vdom, parentEl, index, hostComponent)
      [] vdom.type = DOM_TYPES.COMPONENT ->
           LET Created(W1) ==
                 IF Ok(W1)
                 THEN [W1 EXCEPT !.sch = enqueueJob(@, HookJob("onMounted",
                                                               Get(W1.component, vdom.id)))]
                 ELSE W1
           IN Created(createComponentNode(Enter(W), vdom, parentEl, index, hostComponent))
      [] OTHER -> Throw(Enter(W), "Can't mount DOM of type"))

(***************************************************************************)
(* destroy-dom.js                                                          *)
(***************************************************************************)
removeTextNode(W, vdom) == DomRemove(W, Get(W.el, vdom.id))

\* children.forEach(destroyDOM)
destroyEach(W, children) ==
  IF ~ Ok(W) \/ children = <<>> THEN W
  ELSE destroyEach(destroyDOM(W, Head(children)), Tail(children))

removeElementNode(W, vdom) ==
  LET el == Get(W.el, vdom.id)
      Removed(W1) ==
        IF Ok(W1) /\ vdom.id \in DOMAIN W.listeners
        THEN [removeEventListeners(W1, W.listeners[vdom.id], el)
                EXCEPT !.listeners = Drop(@, vdom.id)]
        ELSE W1
  IN Removed(destroyEach(DomRemove(W, el), vdom.children))

removeFragmentNodes(W, vdom) == destroyEach(W, vdom.children)

\* Component.unmount()
unmount(W, c) ==
  IF ~ W.inst[c].isMounted THEN Throw(W, "Component is not mounted")
  ELSE LET Destroyed(W1) ==
             IF Ok(W1)
             THEN [W1 EXCEPT !.inst[c].vdom = NoVdom, !.inst[c].isMounted = FALSE,
                             !.inst[c].hostEl = Absent]
             ELSE W1
       IN Destroyed(destroyDOM(W, W.inst[c].vdom))

destroyDOM(W, vdom) ==
  IF ~ Ok(W) THEN W
  ELSE LET component == Get(W.component, vdom.id)
           Unmounted(W2) ==
             IF Ok(W2) THEN [W2 EXCEPT !.sch = enqueueJob(@, HookJob("onUnmounted", component))]
             ELSE W2
           Destroyed(W1) == IF Ok(W1) THEN [W1 EXCEPT !.el = Drop(@, vdom.id)] ELSE W1
       IN Leave(W, Destroyed(
            CASE vdom.type = DOM_TYPES.TEXT -> removeTextNode(Enter(W), vdom)
              [] vdom.type = DOM_TYPES.ELEMENT -> removeElementNode(Enter(W), vdom)
              [] vdom.type = DOM_TYPES.FRAGMENT -> removeFragmentNodes(Enter(W), vdom)
              [] vdom.type = DOM_TYPES.COMPONENT ->
                   Unmounted(IF component = Absent THEN Throw(Enter(W), "TypeError")
                             ELSE unmount(Enter(W), component))
              [] OTHER -> Throw(Enter(W), "Can't destroy DOM of type")))

(***************************************************************************)
(* utils/objects.js and patch-dom.js                                       *)
(***************************************************************************)
\* Object.keys order of the objects of the model
KeyOrder == <<"id", "title", "n", "click", "input", "color", "margin", "toString">>

\* an object literal inherits from Object.prototype: the in operator and a
\* property read find what the object owns and, failing that, what it inherits
ObjectPrototype == ("toString" :> "function toString")

In(key, obj) == key \in DOMAIN obj \/ key \in DOMAIN ObjectPrototype

Read(obj, key) == IF key \in DOMAIN obj THEN obj[key] ELSE ObjectPrototype[key]

\* Object.keys(obj): the keys the object owns
OwnKeys(obj) == SelectSeq(KeyOrder, LAMBDA key : key \in DOMAIN obj)

objectsDiff(oldObj, newObj) ==
  [added |-> SelectSeq(OwnKeys(newObj), LAMBDA key : ~ In(key, oldObj)),
   removed |-> SelectSeq(OwnKeys(oldObj), LAMBDA key : ~ In(key, newObj)),
   updated |-> SelectSeq(OwnKeys(newObj), LAMBDA key : In(key, oldObj)
                                                     /\ Read(oldObj, key) # newObj[key])]

findIndexInParent(W, parentEl, el) ==
  IF ~ IsElement(W, parentEl) THEN [threw |-> TRUE, index |-> NullIndex]
  ELSE LET index == IndexOf(W.nodes[parentEl].childNodes, el)
       IN [threw |-> FALSE, index |-> IF index < 0 THEN NullIndex ELSE index]

\* patchText without the comparison of the two strings
patchText_always(W, oldVdom, newVdom) ==
  LET el == Get(W.el, oldVdom.id)
  IN IF el = Absent THEN Throw(W, "TypeError")
     ELSE [W EXCEPT !.nodes[el].value = newVdom.value, !.muts.text = @ + 1]

patchText(W, oldVdom, newVdom) ==
  LET el == Get(W.el, oldVdom.id)
  IN IF oldVdom.value # newVdom.value
     THEN IF el = Absent THEN Throw(W, "TypeError")
          ELSE [W EXCEPT !.nodes[el].value = newVdom.value, !.muts.text = @ + 1]
     ELSE W

RECURSIVE removeEachAttr(_, _, _), setEachAttr(_, _, _, _)
removeEachAttr(W, el, removed) ==
  IF ~ Ok(W) \/ removed = <<>> THEN W
  ELSE removeEachAttr(removeAttribute(W, el, Head(removed)), el, Tail(removed))

setEachAttr(W, el, names, newAttrs) ==
  IF ~ Ok(W) \/ names = <<>> THEN W
  ELSE setEachAttr(setAttribute(W, el, Head(names), newAttrs[Head(names)]), el,
                   Tail(names), newAttrs)

patchAttrs(W, el, oldAttrs, newAttrs) ==
  LET diff == objectsDiff(oldAttrs, newAttrs)
  IN setEachAttr(removeEachAttr(W, el, diff.removed), el, diff.added \o diff.updated, newAttrs)

\* utils/arrays.js: a Map is its keys in insertion order and the value of each
NoMap == [keys |-> <<>>, value |-> EmptyMap]

RECURSIVE countEach(_, _)
countEach(array, map) ==
  IF array = <<>> THEN map
  ELSE countEach(Tail(array),
                 [keys |-> IF Head(array) \in DOMAIN map.value THEN map.keys
                           ELSE Append(map.keys, Head(array)),
                  value |-> Put(map.value, Head(array),
                                (IF Head(array) \in DOMAIN map.value
                                 THEN map.value[Head(array)] ELSE 0) + 1)])

makeCountMap(array) == countEach(array, NoMap)

mapsDiff(oldMap, newMap) ==
  [added |-> SelectSeq(newMap.keys, LAMBDA key : key \notin DOMAIN oldMap.value),
   removed |-> SelectSeq(oldMap.keys, LAMBDA key : key \notin DOMAIN newMap.value),
   updated |-> SelectSeq(newMap.keys, LAMBDA key : key \in DOMAIN oldMap.value
                                                    /\ oldMap.value[key] # newMap.value[key])]

RECURSIVE fill(_, _)
fill(count, key) == IF count <= 0 THEN <<>> ELSE <<key>> \o fill(count - 1, key)

RECURSIVE fillEach(_, _)
fillEach(keys, counts) ==
  IF keys = <<>> THEN <<>>
  ELSE fill(counts.value[Head(keys)], Head(keys)) \o fillEach(Tail(keys), counts)

\* the loop over diff.updated: oldCount and newCount are both read from oldsCount
RECURSIVE pushUpdated(_, _, _, _)
pushUpdated(updated, oldsCount, newsCount, result) ==
  IF updated = <<>> THEN result
  ELSE LET key == Head(updated)
           oldCount == oldsCount.value[key]
           newCount == oldsCount.value[key]
           delta == newCount - oldCount
       IN pushUpdated(Tail(updated), oldsCount, newsCount,
                      IF delta > 0
                      THEN [result EXCEPT !.added = @ \o fill(delta, key)]
                      ELSE [result EXCEPT !.removed = @ \o fill(- delta, key)])

arraysDiff(oldArray, newArray) ==
  LET Diffed(oldsCount, newsCount, diff) ==
        pushUpdated(diff.updated, oldsCount, newsCount,
                    [added |-> fillEach(diff.added, newsCount),
                     removed |-> fillEach(diff.removed, oldsCount)])
      Counted(oldsCount, newsCount) ==
        Diffed(oldsCount, newsCount, mapsDiff(oldsCount, newsCount))
  IN Counted(makeCountMap(oldArray), makeCountMap(newArray))

\* str.split(/(\s+)/): the runs of the string, those of spaces included, with an
\* empty string in front of a leading run of spaces and behind a trailing one
RECURSIVE splitRuns(_, _, _, _)
splitRuns(str, run, inSpaces, parts) ==
  IF str = <<>> THEN IF inSpaces THEN parts \o <<run, <<>>>> ELSE Append(parts, run)
  ELSE IF (Head(str) = Space) = inSpaces
  THEN splitRuns(Tail(str), Append(run, Head(str)), inSpaces, parts)
  ELSE splitRuns(Tail(str), <<Head(str)>>, ~ inSpaces, Append(parts, run))

split(str) == splitRuns(str, <<>>, FALSE, <<>>)

toClassList(classes) ==
  IF classes.kind = "array" THEN SelectSeq(classes.list, isNotBlankOrEmptyString)
  ELSE SelectSeq(split(classes.text), isNotBlankOrEmptyString)

patchClasses(W, el, oldClass, newClass) ==
  LET Applied(diff) ==
        (LET Removed(W1) ==
               IF Len(diff.added) > 0 THEN DomClassListAdd(W1, el, diff.added) ELSE W1
         IN Removed(IF Len(diff.removed) > 0 THEN DomClassListRemove(W, el, diff.removed)
                    ELSE W))
  IN Applied(arraysDiff(toClassList(oldClass), toClassList(newClass)))

RECURSIVE removeEachStyle(_, _, _), setEachStyleOf(_, _, _, _)
removeEachStyle(W, el, removed) ==
  IF ~ Ok(W) \/ removed = <<>> THEN W
  ELSE removeEachStyle(removeStyle(W, el, Head(removed)), el, Tail(removed))

setEachStyleOf(W, el, names, newStyle) ==
  IF ~ Ok(W) \/ names = <<>> THEN W
  ELSE setEachStyleOf(setStyle(W, el, Head(names), newStyle[Head(names)]), el,
                      Tail(names), newStyle)

\* patchStyles without the loop over the removed properties
patchStyles_keep(W, el, oldStyle, newStyle) ==
  LET Applied(diff) == setEachStyleOf(W, el, diff.added \o diff.updated, newStyle)
  IN Applied(objectsDiff(oldStyle, newStyle))

patchStyles(W, el, oldStyle, newStyle) ==
  LET Applied(diff) ==
        setEachStyleOf(removeEachStyle(W, el, diff.removed), el,
                       diff.added \o diff.updated, newStyle)
  IN Applied(objectsDiff(oldStyle, newStyle))

RECURSIVE unbindEach(_, _, _, _), bindEach(_, _, _, _, _, _)
unbindEach(W, el, names, oldListeners) ==
  IF ~ Ok(W) \/ names = <<>> THEN W
  ELSE unbindEach(DomRemoveListener(W, el, Head(names), Get(oldListeners, Head(names))),
                  el, Tail(names), oldListeners)

bindEach(W, el, names, newEvents, hostComponent, addedListeners) ==
  IF ~ Ok(W) \/ names = <<>> THEN [W |-> W, addedListeners |-> addedListeners]
  ELSE LET Bound(W1) ==
             bindEach(W1, el, Tail(names), newEvents, hostComponent,
                      Put(addedListeners, Head(names), Len(W1.bound)))
       IN Bound(addEventListener(W, Head(names), newEvents[Head(names)], el, hostComponent))

patchEvents(W, el, oldListeners, oldEvents, newEvents, hostComponent) ==
  LET diff == objectsDiff(oldEvents, newEvents)
  IN bindEach(unbindEach(W, el, diff.removed \o diff.updated, oldListeners), el,
              diff.added \o diff.updated, newEvents, hostComponent, EmptyMap)

\* the key stays among the attributes and is equal on both sides
patchElement(W, oldVdom, newVdom, hostComponent) ==
  LET el == Get(W.el, oldVdom.id)
      oldListeners == IF oldVdom.id \in DOMAIN W.listeners THEN W.listeners[oldVdom.id]
                      ELSE EmptyMap
      Patched(patched) ==
        IF Ok(patched.W)
        THEN [patched.W EXCEPT !.listeners = Put(@, newVdom.id, patched.addedListeners)]
        ELSE patched.W
  IN Patched(patchEvents(
       patchStyles(
         patchClasses(patchAttrs(W, el, oldVdom.props.attrs, newVdom.props.attrs),
                      el, oldVdom.props.class, newVdom.props.class),
         el, oldVdom.props.style, newVdom.props.style),
       el, oldListeners, oldVdom.props.on, newVdom.props.on, hostComponent))

\* #patch()
patch(W, c) ==
  IF ~ W.inst[c].isMounted THEN Throw(W, "Component is not mounted")
  ELSE LET Patched(W1, vdom) == IF Ok(W1) THEN [W1 EXCEPT !.inst[c].vdom = vdom] ELSE W1
           Rendered(r) ==
             IF Ok(r.W)
             THEN Patched(patchDOM(r.W, W.inst[c].vdom, r.vdom, W.inst[c].hostEl, c), r.vdom)
             ELSE r.W
       IN Rendered(render(W, c))

\* { ...a, ...b }
Merge(a, b) == b @@ a

updateState(W, c, state) == patch([W EXCEPT !.inst[c].state = Merge(@, state)], c)

\* updateProps that replaces the props instead of merging into them
updateProps_replace(W, c, props) == patch([W EXCEPT !.inst[c].props = props], c)

updateProps(W, c, props) == patch([W EXCEPT !.inst[c].props = Merge(@, props)], c)

\* patchComponent that mounts a new instance for the new node instead
patchComponent_remount(W, oldVdom, newVdom) ==
  createComponentNode(W, newVdom, Container, NullIndex, Absent)

patchComponent(W, oldVdom, newVdom) ==
  LET component == Get(W.component, oldVdom.id)
      Referenced(W1, first) ==
        IF first.threw THEN Throw(W1, "TypeError")
        ELSE [W1 EXCEPT !.component = Put(@, newVdom.id, component),
                        !.el = SetRef(@, newVdom.id, first.el)]
      Updated(W1) == IF ~ Ok(W1) THEN W1 ELSE Referenced(W1, firstElement(W1, component))
  IN IF component = Absent THEN Throw(W, "TypeError")
     ELSE Updated(updateProps([W EXCEPT !.inst[component].children = newVdom.children],
                              component, extractPropsAndEvents(newVdom).props))

\* elementsToMove.forEach((el) => { parentEl.insertBefore(el, elAtTargetIndex); patchDOM(...) })
RECURSIVE moveEach(_, _, _, _, _, _, _), patchOperations(_, _, _, _, _, _)
moveEach(W, elementsToMove, elAtTargetIndex, oldChild, newChild, parentEl, hostComponent) ==
  IF ~ Ok(W) \/ elementsToMove = <<>> THEN W
  ELSE moveEach(patchDOM(DomInsertBefore(W, parentEl, Head(elementsToMove), elAtTargetIndex),
                         oldChild, newChild, parentEl, hostComponent),
                Tail(elementsToMove), elAtTargetIndex, oldChild, newChild, parentEl,
                hostComponent)

\* the body of `for (const operation of diffSeq)` in patchChildren
PatchOperation(W, operation, oldChildren, newChildren, parentEl, hostComponent) ==
  LET Move(off, oldChild, newChild, moved) ==
        LET at == operation.index + off.value
            childNodes == W.nodes[parentEl].childNodes
        IN IF moved.threw THEN Throw(W, "TypeError")
           ELSE moveEach(W, moved.els,
                         IF at >= 0 /\ at < Len(childNodes) THEN childNodes[at + 1] ELSE Absent,
                         oldChild, newChild, parentEl, hostComponent)
      MoveChild(off, oldChild, newChild) ==
        Move(off, oldChild, newChild,
             IF isComponent(oldChild)
             THEN IF Get(W.component, oldChild.id) = Absent
                  THEN [threw |-> TRUE, els |-> <<>>]
                  ELSE elements(W, Get(W.component, oldChild.id))
             ELSE [threw |-> FALSE, els |-> <<Get(W.el, oldChild.id)>>])
      Operate(off) ==
        IF off.threw THEN Throw(W, "TypeError")
        ELSE CASE operation.op = ARRAY_DIFF_OP.ADD ->
                    mountDOM(W, operation.item, parentEl, operation.index + off.value,
                             hostComponent)
               [] operation.op = ARRAY_DIFF_OP.REMOVE -> destroyDOM(W, operation.item)
               [] operation.op = ARRAY_DIFF_OP.MOVE ->
                    IF operation.originalIndex < 0 \/ ~ IsElement(W, parentEl)
                    THEN Throw(W, "TypeError")
                    ELSE MoveChild(off, oldChildren[operation.originalIndex + 1],
                                   newChildren[operation.index + 1])
               [] OTHER ->
                    IF operation.originalIndex < 0 THEN Throw(W, "TypeError")
                    ELSE patchDOM(W, oldChildren[operation.originalIndex + 1],
                                  newChildren[operation.index + 1], parentEl, hostComponent)
  IN Operate(HostOffset(W, hostComponent))

patchOperations(W, diffSeq, oldChildren, newChildren, parentEl, hostComponent) ==
  IF ~ Ok(W) \/ diffSeq = <<>> THEN W
  ELSE patchOperations(PatchOperation(W, Head(diffSeq), oldChildren, newChildren, parentEl,
                                      hostComponent),
                       Tail(diffSeq), oldChildren, newChildren, parentEl, hostComponent)

patchChildren(W, oldVdom, newVdom, hostComponent) ==
  LET oldChildren == extractChildren(oldVdom)
      newChildren == extractChildren(newVdom)
  IN patchOperations(W, arraysDiffSequence(oldChildren, newChildren, "nodes"),
                     oldChildren, newChildren, Get(W.el, oldVdom.id), hostComponent)

\* what one patchDOM call on two equal nodes did, seen from outside: the
\* references of the old node when it was called and of the new node when it
\* returned, and the mutations in between
Reuse(W, R, oldVdom, newVdom) ==
  LET elBefore == Get(W.el, oldVdom.id)
      elAfter == Get(R.el, newVdom.id)
      isText == newVdom.type = DOM_TYPES.TEXT
      isInstance == newVdom.type = DOM_TYPES.COMPONENT /\ Get(W.component, oldVdom.id) # Absent
  IN [type |-> newVdom.type,
      elBefore |-> elBefore, elAfter |-> elAfter,
      componentBefore |-> Get(W.component, oldVdom.id),
      componentAfter |-> Get(R.component, newVdom.id),
      parentBefore |-> IF elBefore = Absent THEN Absent ELSE W.nodes[elBefore].parentNode,
      parentAfter |-> IF elBefore = Absent THEN Absent ELSE R.nodes[elBefore].parentNode,
      propsBefore |-> IF isInstance THEN W.inst[Get(W.component, oldVdom.id)].props
                      ELSE EmptyMap,
      propsForwarded |-> IF isInstance THEN extractPropsAndEvents(newVdom).props ELSE EmptyMap,
      propsAfter |-> IF isInstance THEN R.inst[Get(W.component, oldVdom.id)].props
                     ELSE EmptyMap,
      sameText |-> isText /\ oldVdom.value = newVdom.value,
      textWrites |-> IF isText THEN R.muts.text - W.muts.text ELSE 0,
      otherWrites |-> IF isText
                      THEN (R.muts.structure - W.muts.structure)
                           + (R.muts.attribute - W.muts.attribute)
                           + (R.muts.listener - W.muts.listener)
                           + (Len(R.nodes) - Len(W.nodes))
                      ELSE 0]

patchDOM(W, oldVdom, newVdom, parentEl, hostComponent) ==
  IF ~ Ok(W) THEN W
  ELSE IF ~ areNodesEqual(oldVdom, newVdom)
  THEN LET Replace(found) ==
             IF found.threw THEN Throw(Enter(W), "TypeError")
             ELSE mountDOM(destroyDOM(Enter(W), oldVdom), newVdom, parentEl, found.index,
                           hostComponent)
       IN Leave(W, Replace(findIndexInParent(W, parentEl, Get(W.el, oldVdom.id))))
  ELSE LET W1 == [Enter(W) EXCEPT !.el = SetRef(@, newVdom.id, Get(W.el, oldVdom.id))]
           Children(W2) ==
             IF newVdom.type = DOM_TYPES.TEXT THEN W2
             ELSE patchChildren(W2, oldVdom, newVdom, hostComponent)
           Returned(R) ==
             IF Ok(R) THEN [R EXCEPT !.reused = @ \cup {Reuse(W, R, oldVdom, newVdom)}] ELSE R
       IN Returned(Leave(W, Children(
            CASE newVdom.type = DOM_TYPES.TEXT -> patchText(W1, oldVdom, newVdom)
              [] newVdom.type = DOM_TYPES.ELEMENT ->
                   patchElement(W1, oldVdom, newVdom, hostComponent)
              [] newVdom.type = DOM_TYPES.COMPONENT -> patchComponent(W1, oldVdom, newVdom)
              [] OTHER -> W1)))

(***************************************************************************)
(* app.js: the object createApp returns, as the record of the variables    *)
(* its methods close over.  The router of the model is the NoopRouter.     *)
(***************************************************************************)
createApp(RootComponent, props) ==
  [RootComponent |-> RootComponent, props |-> props,
   parentEl |-> Absent, isMounted |-> FALSE, vdom |-> NoVdom]

reset(a) == [a EXCEPT !.parentEl = Absent, !.isMounted = FALSE, !.vdom = NoVdom]

\* mount(_parentEl): [W, app] afterwards
app_mount(W, a, parentEl) ==
  IF a.isMounted THEN [W |-> Throw(W, "The application is already mounted"), app |-> a]
  ELSE LET Mounted(R, vdom) ==
             [W |-> R,
              app |-> [a EXCEPT !.parentEl = parentEl, !.vdom = vdom, !.isMounted = Ok(R)]]
           Created(st) ==
             Mounted(mountDOM([W EXCEPT !.nextObj = st.next], st.tree, parentEl, NullIndex,
                              Absent),
                     st.tree)
       IN Created(Stamp(h(a.RootComponent, a.props, <<>>), W.nextObj))

\* unmount() that leaves the three variables as they are
app_unmount_keep(W, a) ==
  IF ~ a.isMounted THEN [W |-> Throw(W, "The application is not mounted"), app |-> a]
  ELSE [W |-> destroyDOM(W, a.vdom), app |-> a]

\* unmount(): [W, app] afterwards
app_unmount(W, a) ==
  IF ~ a.isMounted THEN [W |-> Throw(W, "The application is not mounted"), app |-> a]
  ELSE LET Destroyed(R) == [W |-> R, app |-> IF Ok(R) THEN reset(a) ELSE a]
       IN Destroyed(destroyDOM(W, a.vdom))

(***************************************************************************)
(* router.js, as routingDocumentation.md prints it: the HashRouter with    *)
(* the window it listens on.  popstate is the set of listeners the window  *)
(* holds for that event (addEventListener ignores a listener it already    *)
(* holds), pending the asynchronous calls that wait at an await, each by   *)
(* the function it resumes in, setups the number of times init went past   *)
(* its guard since the router was constructed or last destroyed.           *)
(***************************************************************************)
onPopState == "onPopState"
HomePath == "/"
HomeHash == "#/"

\* `#${path}` and hash.slice(1), for the one path the routes have
hashOf(path) == IF path = HomePath THEN HomeHash ELSE path
pathOf(hash) == IF hash = HomeHash THEN HomePath ELSE hash

RouterInit ==
  [isInitialized |-> FALSE, hash |-> "", popstate |-> {}, matchedRoute |-> "",
   pushed |-> 0, pending |-> <<>>, setups |-> 0, destroyedAt |-> <<>>]

\* get #currentRouteHash()
currentRouteHash(rt) == IF rt.hash = "" THEN HomePath ELSE pathOf(rt.hash)

\* async init(), up to its await: navigateTo has found the route and waits
\* for #canChangeRoute
init(rt) ==
  IF rt.isInitialized THEN rt
  ELSE [rt EXCEPT !.hash = IF @ = "" THEN HomeHash ELSE @,
                  !.popstate = @ \cup {onPopState},
                  !.pending = Append(@, "navigateTo"),
                  !.setups = @ + 1]

\* async navigateTo(path), from the await of #canChangeRoute to its end:
\* the route has no guard, so shouldNavigate is true
navigateTo(rt, i) ==
  [rt EXCEPT !.matchedRoute = currentRouteHash(rt),
             !.hash = hashOf(currentRouteHash(rt)),
             !.pushed = @ + 1,
             !.pending[i] = "init"]

\* async init(), from its await to its end
initialized(rt, i) ==
  [rt EXCEPT !.isInitialized = TRUE,
             !.pending = SubSeq(@, 1, i - 1) \o SubSeq(@, i + 1, Len(@))]

\* destroy(): [router, threw] afterwards.  forEach returns undefined and
\* Array.from(undefined) throws a TypeError, so the assignment that follows
\* it is not reached
destroy(rt) ==
  IF ~ rt.isInitialized
    THEN [router |-> [rt EXCEPT !.destroyedAt = Append(@, FALSE)], threw |-> FALSE]
    ELSE [router |-> [rt EXCEPT !.popstate = @ \ {onPopState},
                                !.destroyedAt = Append(@, TRUE)],
          threw |-> TRUE]

\* mount(_parentEl) of an application created with options.router:
\* [W, app, router] afterwards
routed_mount(W, a, rt, parentEl) ==
  LET Mounted(r) ==
        [W |-> r.W, app |-> r.app, router |-> IF Ok(r.W) THEN init(rt) ELSE rt]
  IN Mounted(app_mount(W, a, parentEl))

\* unmount() of that application: [W, app, router] afterwards
routed_unmount(W, a, rt) ==
  IF ~ a.isMounted
    THEN [W |-> Throw(W, "The application is not mounted"), app |-> a, router |-> rt]
    ELSE LET Destroyed(R, d) ==
               IF ~ Ok(R) THEN [W |-> R, app |-> a, router |-> rt]
               ELSE IF d.threw
                 THEN [W |-> Throw(R, "undefined is not iterable"), app |-> a,
                       router |-> d.router]
                 ELSE [W |-> R, app |-> reset(a), router |-> d.router]
         IN Destroyed(destroyDOM(W, a.vdom), destroy(rt))

\* a node and what is below it, as a document would serialise it, with the
\* events that have a listener on each element
RECURSIVE Shape(_, _), Shapes(_, _)
Shapes(W, ns) == IF ns = <<>> THEN <<>> ELSE <<Shape(W, Head(ns))>> \o Shapes(W, Tail(ns))

Shape(W, n) ==
  [kind |-> W.nodes[n].kind, tag |-> W.nodes[n].tag, value |-> W.nodes[n].value,
   attrs |-> W.nodes[n].attrs,
   events |-> {l.event : l \in W.nodes[n].handlers},
   childNodes |-> Shapes(W, W.nodes[n].childNodes)]

(***************************************************************************)
(* Specification SpecDiff: arraysDiffSequence run one loop iteration at a  *)
(* time on every pair of sequences up to MaxLen, with either equalsFn.     *)
(***************************************************************************)
Primitives == {"A", "B", "C"}
NodeItems ==
  { hString("x"), hString("y"),
    h("div", NoProps, <<>>), h("div", Props("k1", EmptyMap, EmptyMap), <<>>),
    h("Counter", Props("k1", EmptyMap, EmptyMap), <<>>) }

SeqsUpTo(S, n) == UNION {[1..k -> S] : k \in 0..n}
IsInjective(s) == \A i, j \in 1..Len(s) : i # j => s[i] # s[j]

IdleEq == eqOne = hString("x") /\ eqTwo = hString("x") /\ eqResult = "idle"
IdleDiff == dOld = <<>> /\ dNew = <<>> /\ dFn = "strict" /\ dSt = DiffStart(<<>>) /\ dPc = "idle"
IdleSch == sch = SchedulerInit
CurInit == [phase |-> "none", tree |-> NoVdom, index |-> NullIndex, history |-> <<>>]
ObsInit == [op |-> "none", before |-> WorldInit, old |-> NoVdom]
AppInit == createApp("Counter", NoProps)
CallInit == [op |-> "none", wasMounted |-> FALSE, error |-> "", before |-> WorldInit, n |-> 0]
SlotsInit == [vdom |-> NoVdom, externalContent |-> <<>>, result |-> NoVdom, pc |-> "idle"]
PureInit == [fn |-> "none", args |-> <<>>, result |-> <<>>, pc |-> "idle"]
IdlePure == pure = PureInit
IdleRouter == router = RouterInit
IdleCalls == app = AppInit /\ call = CallInit /\ slots = SlotsInit /\ IdlePure /\ IdleRouter
IdleDom == w = WorldInit /\ cur = CurInit /\ obs = ObsInit /\ IdleCalls

InitDiff ==
  /\ dFn \in {"strict", "nodes"}
  /\ dOld \in SeqsUpTo(IF dFn = "strict" THEN Primitives ELSE NodeItems, MaxLen)
  /\ dNew \in SeqsUpTo(IF dFn = "strict" THEN Primitives ELSE NodeItems, MaxLen)
  /\ dSt = DiffStart(dOld)
  /\ dPc = "loop"
  /\ IdleEq /\ IdleSch /\ IdleDom

InLoop == dPc = "loop" /\ dSt.index < Len(dNew)

DiffRemove ==
  /\ InLoop
  /\ isRemoval(dSt.a, dSt.index, dNew, dFn)
  /\ dSt' = DiffIteration(dSt, dNew, dFn)
  /\ UNCHANGED <<dOld, dNew, dFn, dPc, eqOne, eqTwo, eqResult, sch, w, cur, obs, app, call, slots, pure, router>>

DiffNoop ==
  /\ InLoop
  /\ ~ isRemoval(dSt.a, dSt.index, dNew, dFn)
  /\ isNoop(dSt.a, dSt.index, dNew, dFn)
  /\ dSt' = DiffIteration(dSt, dNew, dFn)
  /\ UNCHANGED <<dOld, dNew, dFn, dPc, eqOne, eqTwo, eqResult, sch, w, cur, obs, app, call, slots, pure, router>>

DiffAdd ==
  /\ InLoop
  /\ ~ isRemoval(dSt.a, dSt.index, dNew, dFn)
  /\ ~ isNoop(dSt.a, dSt.index, dNew, dFn)
  /\ isAddition(dSt.a, dNew[dSt.index + 1], dSt.index, dFn)
  /\ dSt' = DiffIteration(dSt, dNew, dFn)
  /\ UNCHANGED <<dOld, dNew, dFn, dPc, eqOne, eqTwo, eqResult, sch, w, cur, obs, app, call, slots, pure, router>>

DiffMove ==
  /\ InLoop
  /\ ~ isRemoval(dSt.a, dSt.index, dNew, dFn)
  /\ ~ isNoop(dSt.a, dSt.index, dNew, dFn)
  /\ ~ isAddition(dSt.a, dNew[dSt.index + 1], dSt.index, dFn)
  /\ dSt' = DiffIteration(dSt, dNew, dFn)
  /\ UNCHANGED <<dOld, dNew, dFn, dPc, eqOne, eqTwo, eqResult, sch, w, cur, obs, app, call, slots, pure, router>>

DiffReturn ==
  /\ dPc = "loop" /\ dSt.index >= Len(dNew)
  /\ dSt' = DiffTail(dSt, dNew)
  /\ dPc' = "done"
  /\ UNCHANGED <<dOld, dNew, dFn, eqOne, eqTwo, eqResult, sch, w, cur, obs, app, call, slots, pure, router>>

NextDiff == DiffRemove \/ DiffNoop \/ DiffAdd \/ DiffMove \/ DiffReturn

SpecDiff == InitDiff /\ [][NextDiff]_vars

(***************************************************************************)
(* Specification SpecLoop: the same loop under every equalsFn of the       *)
(* model, the caller's functions included, and run to its end: a call that *)
(* has started goes on until it returns.                                   *)
(***************************************************************************)
CallerFns == {"strict", "never", "always", "before"}

InitLoop ==
  /\ dFn \in CallerFns \cup {"nodes"}
  /\ dOld \in SeqsUpTo(IF dFn \in CallerFns THEN Primitives ELSE NodeItems, MaxLen)
  /\ dNew \in SeqsUpTo(IF dFn \in CallerFns THEN Primitives ELSE NodeItems, MaxLen)
  /\ dSt = DiffStart(dOld)
  /\ dPc = "loop"
  /\ IdleEq /\ IdleSch /\ IdleDom

SpecLoop == InitLoop /\ [][NextDiff]_vars /\ WF_vars(NextDiff)

(***************************************************************************)
(* Specification SpecEq: areNodesEqual applied to every pair of sample     *)
(* nodes of the five variants.                                             *)
(***************************************************************************)
Keys == {Undefined, "k1", "k2"}
SomeAttrs == {EmptyMap, ("id" :> "abc")}
SomeChildren == {<<>>, <<hString("x")>>}
EqSamples ==
  {hString(v) : v \in {"x", "y"}}
  \cup {hFragment(c) : c \in SomeChildren}
  \cup {hSlot(c) : c \in SomeChildren}
  \cup {h(t, Props(k, at, EmptyMap), c) :
          t \in {"div", "span", "Counter", "Card"}, k \in Keys, at \in SomeAttrs,
          c \in SomeChildren}

InitEq ==
  /\ eqOne \in EqSamples
  /\ eqTwo \in EqSamples
  /\ eqResult = "unknown"
  /\ IdleDiff /\ IdleSch /\ IdleDom

Compare ==
  /\ eqResult = "unknown"
  /\ eqResult' = IF areNodesEqual(eqOne, eqTwo) THEN "equal" ELSE "different"
  /\ UNCHANGED <<eqOne, eqTwo, dOld, dNew, dFn, dSt, dPc, sch, w, cur, obs, app, call, slots, pure, router>>

NextEq == Compare

SpecEq == InitEq /\ [][NextEq]_vars

(***************************************************************************)
(* Specification SpecSched: the scheduler under every interleaving of      *)
(* submissions, nextTick calls, microtask checkpoints, promise             *)
(* settlements and timers.                                                 *)
(***************************************************************************)
InitSched == IdleSch /\ IdleDiff /\ IdleEq /\ IdleDom

UNCHANGED_NotSch == UNCHANGED <<dOld, dNew, dFn, dSt, dPc, eqOne, eqTwo, eqResult, w, cur, obs, app, call, slots, pure, router>>

\* the running script calls enqueueJob(job)
Submit ==
  /\ sch.nextId <= MaxJobs
  /\ \E kind \in JobKinds : sch' = enqueueJob(sch, [id |-> 0, kind |-> kind])
  /\ UNCHANGED_NotSch

\* the running script calls nextTick()
CallNextTick ==
  /\ Len(sch.ticks) < 1
  /\ sch' = nextTick(sch)
  /\ UNCHANGED_NotSch

\* the call stack is empty: the first microtask runs (here always processJobs)
RunMicrotask ==
  /\ sch.microtasks # <<>>
  /\ sch' = processJobs([sch EXCEPT !.microtasks = Tail(@)])
  /\ UNCHANGED_NotSch

\* a promise returned by a job settles; the reaction registered by processJobs runs
Settle ==
  /\ \E job \in sch.pending :
       sch' = [sch EXCEPT !.pending = @ \ {job},
                          !.reported = IF job.kind = "reject" THEN @ \cup {job.id} ELSE @]
  /\ UNCHANGED_NotSch

\* a timer task runs only once no microtask is pending: setTimeout(resolve)
Timeout ==
  /\ sch.microtasks = <<>>
  /\ \E i \in 1..Len(sch.ticks) :
       /\ ~ sch.ticks[i].resolved
       /\ sch' = [sch EXCEPT !.ticks[i].resolved = TRUE,
                             !.ticks[i].startedAtResolve = sch.started]
  /\ UNCHANGED_NotSch

NextSched == Submit \/ CallNextTick \/ RunMicrotask \/ Settle \/ Timeout

SpecSched == InitSched /\ [][NextSched]_vars

\* the same with the microtask checkpoint reached whenever a microtask is
\* queued: the script that runs always comes to its end
SpecSchedFair == SpecSched /\ WF_vars(RunMicrotask)

(***************************************************************************)
(* Specification SpecDom: an application script that mounts a tree into    *)
(* the container, re-renders it (patchDOM with a new tree, or with the     *)
(* same tree again), lets a Counter update its state, and destroys the     *)
(* tree, with a microtask checkpoint possible between any two calls.       *)
(* The container holds one <hr> beforehand.  A call that throws ends the   *)
(* script.                                                                 *)
(***************************************************************************)
MaxKids == 2         \* longest child list of a general tree
MaxKeyed == 3        \* longest list of keyed components
MaxCount == 1        \* highest count a Counter is driven to
MaxOps == 2          \* calls between the mount and the destroy

HandlerA == ("click" :> 1)     \* two handler functions of the application
HandlerB == ("click" :> 2)

Kids ==
  { hString("a"), hString("b"),
    h("span", Props(Undefined, ("id" :> "s"), HandlerA), <<hString("a")>>),
    h("span", Props(Undefined, ("title" :> "t"), HandlerB), <<>>),
    h("Counter", NoProps, <<>>),
    h("Card", NoProps, <<hString("a")>>) }

GeneralTrees ==
  UNION { {h("div", NoProps, kids), hFragment(kids)} : kids \in SeqsUpTo(Kids, MaxKids) }

ListKeys == {Digits[k] : k \in 1..MaxKeyed}
KeyedLists == {keys \in SeqsUpTo(ListKeys, MaxKeyed) : IsInjective(keys)}
RECURSIVE KeyedItems(_)
KeyedItems(keys) ==
  IF keys = <<>> THEN <<>>
  ELSE <<h("Counter", Props(Head(keys), EmptyMap, EmptyMap), <<>>)>> \o KeyedItems(Tail(keys))
KeyedTree(keys) == h("ul", NoProps, KeyedItems(keys))
KeyedTrees == {KeyedTree(keys) : keys \in KeyedLists}

SpecialTrees ==
  { hFragment(<<h("Multi", Props(Undefined, ("n" :> "2"), EmptyMap), <<>>), hString("a")>>),
    hFragment(<<h("Multi", NoProps, <<>>), hString("a")>>),
    hFragment(<<hString("a"), h("Multi", Props(Undefined, ("n" :> "0"), EmptyMap), <<>>)>>),
    hFragment(<<hString("a"), h("Multi", Props(Undefined, ("n" :> "2"), EmptyMap), <<>>)>>),
    h("div", NoProps, <<h("Box", NoProps, <<h("i", NoProps, <<>>)>>)>>),
    h("div", NoProps, <<h("Box", NoProps, <<>>), hString("b")>>),
    h("div", NoProps, <<hFragment(<<hString("a"), h("p", NoProps, <<>>)>>), hString("b")>>),
    h("Card", NoProps, <<>>),
    h("Card", NoProps, <<hString("b")>>),
    h("Counter", NoProps, <<>>),
    hString("a") }

Trees == GeneralTrees \cup KeyedTrees \cup SpecialTrees

InitDom == IdleDom /\ IdleDiff /\ IdleEq /\ IdleSch

UNCHANGED_NotDom ==
  UNCHANGED <<dOld, dNew, dFn, dSt, dPc, eqOne, eqTwo, eqResult, sch, app, call, slots, pure, router>>

\* the application builds a tree: its nodes are new objects
Build(tree) == Stamp(tree, w.nextObj)
Before(next) == [w EXCEPT !.nextObj = next, !.reused = {}]
After(R, tree, op) ==
  [phase |-> IF Ok(R) THEN (IF op = "destroy" THEN "destroyed" ELSE "live") ELSE "failed",
   tree |-> tree, index |-> cur.index, history |-> Append(cur.history, op)]

Calls == Len(cur.history) - 1

\* mountDOM(tree, container, index), with index null or 0
MountTree ==
  /\ cur.phase = "none"
  /\ \E tree \in Trees, index \in {NullIndex, 0} :
       LET Returned(R, tree1) ==
             /\ w' = R
             /\ cur' = [After(R, tree1, "mount") EXCEPT !.index = index]
           Built(built) ==
             Returned(mountDOM(Before(built.next), built.tree, Container, index, Absent),
                      built.tree)
       IN /\ Built(Build(tree))
          /\ obs' = [op |-> "mount", before |-> w, old |-> NoVdom]
  /\ UNCHANGED_NotDom

\* patchDOM(old, new, container) with a newly built tree
PatchTree ==
  /\ cur.phase = "live" /\ Calls < MaxOps
  /\ \A i \in 1..Len(cur.history) : cur.history[i] # "patch"
  /\ \E tree \in Trees :
       LET Returned(R, tree1) ==
             /\ w' = R
             /\ cur' = After(R, tree1, "patch")
           Built(built) ==
             Returned(patchDOM(Before(built.next), cur.tree, built.tree, Container, Absent),
                      built.tree)
       IN /\ Built(Build(tree))
          /\ obs' = [op |-> "patch", before |-> w, old |-> cur.tree]
  /\ UNCHANGED_NotDom

\* patchDOM(new, new, container): the same tree object on both sides
RePatch ==
  /\ cur.phase = "live" /\ Calls < MaxOps
  /\ LET Returned(R) ==
           /\ w' = R
           /\ cur' = After(R, cur.tree, "repatch")
     IN /\ Returned(patchDOM(Before(w.nextObj), cur.tree, cur.tree, Container, Absent))
        /\ obs' = [op |-> "repatch", before |-> w, old |-> cur.tree]
  /\ UNCHANGED_NotDom

\* a mounted Counter calls this.updateState({ count: this.state.count + 1 })
UpdateState ==
  /\ cur.phase = "live" /\ Calls < MaxOps
  /\ \E c \in 1..Len(w.inst) :
       /\ w.inst[c].def = "Counter" /\ w.inst[c].isMounted
       /\ w.inst[c].state.count < MaxCount
       /\ LET Returned(R) ==
                /\ w' = R
                /\ cur' = After(R, cur.tree, "update")
          IN /\ Returned(updateState(Before(w.nextObj), c,
                                     [count |-> w.inst[c].state.count + 1]))
             /\ obs' = [op |-> "update", before |-> w, old |-> cur.tree]
  /\ UNCHANGED_NotDom

\* destroyDOM(tree)
DestroyTree ==
  /\ cur.phase = "live"
  /\ LET Returned(R) ==
           /\ w' = R
           /\ cur' = After(R, cur.tree, "destroy")
     IN /\ Returned(destroyDOM(Before(w.nextObj), cur.tree))
        /\ obs' = [op |-> "destroy", before |-> w, old |-> cur.tree]
  /\ UNCHANGED_NotDom

\* the call stack is empty: the microtask queued by scheduleUpdate runs
Checkpoint ==
  /\ w.sch.microtasks # <<>>
  /\ w' = [w EXCEPT !.sch = processJobs([@ EXCEPT !.microtasks = Tail(@)])]
  /\ UNCHANGED <<cur, obs>>
  /\ UNCHANGED_NotDom

NextDom == MountTree \/ PatchTree \/ RePatch \/ UpdateState \/ DestroyTree \/ Checkpoint

SpecDom == InitDom /\ [][NextDom]_vars

(***************************************************************************)
(* Specification SpecComp: a script holds one component instance           *)
(* (new Component(props), setExternalContent(children)) and calls mount,   *)
(* unmount, updateState and updateProps on it in any order, catching what  *)
(* a call throws.                                                          *)
(***************************************************************************)
MaxCalls == 4        \* calls on the instance (or the application) in one behaviour

Instances ==
  { h("Counter", NoProps, <<>>),
    h("Multi", Props(Undefined, ("n" :> "2"), EmptyMap), <<>>),
    h("Card", NoProps, <<>>),
    h("Card", NoProps, <<hString("a")>>),
    h("Box", NoProps, <<h("i", NoProps, <<>>)>>) }

UNCHANGED_NotComp ==
  UNCHANGED <<dOld, dNew, dFn, dSt, dPc, eqOne, eqTwo, eqResult, sch, cur, obs, app, slots, pure, router>>

InitComp ==
  /\ \E vdom \in Instances :
       LET Constructed(built) ==
             w = [WorldInit EXCEPT !.inst = <<NewComponent(built.tree, Absent)>>,
                                   !.nextObj = built.next]
       IN Constructed(Stamp(vdom, 1))
  /\ cur = CurInit /\ obs = ObsInit /\ app = AppInit /\ call = CallInit /\ slots = SlotsInit
  /\ IdleDiff /\ IdleEq /\ IdleSch
  /\ IdlePure /\ IdleRouter

\* the script catches the exception of the call, if there is one
Caught(R) == [R EXCEPT !.error = ""]
Called(op, R) ==
  [op |-> op, wasMounted |-> w.inst[1].isMounted, error |-> R.error, before |-> w,
   n |-> call.n + 1]

CompMount ==
  /\ call.n < MaxCalls
  /\ \E index \in {NullIndex, 0} :
       LET Returned(R) == w' = Caught(R) /\ call' = Called("mount", R)
       IN Returned(mount(w, 1, Container, index))
  /\ UNCHANGED_NotComp

CompUnmount ==
  /\ call.n < MaxCalls
  /\ LET Returned(R) == w' = Caught(R) /\ call' = Called("unmount", R)
     IN Returned(unmount(w, 1))
  /\ UNCHANGED_NotComp

CompUpdateState ==
  /\ call.n < MaxCalls
  /\ LET Returned(R) == w' = Caught(R) /\ call' = Called("updateState", R)
     IN Returned(updateState(w, 1, [count |-> (w.inst[1].state.count + 1) % (MaxCount + 1)]))
  /\ UNCHANGED_NotComp

CompUpdateProps ==
  /\ call.n < MaxCalls
  /\ \E props \in {("n" :> "1"), ("title" :> "t")} :
       LET Returned(R) == w' = Caught(R) /\ call' = Called("updateProps", R)
       IN Returned(updateProps(w, 1, props))
  /\ UNCHANGED_NotComp

NextComp == CompMount \/ CompUnmount \/ CompUpdateState \/ CompUpdateProps

SpecComp == InitComp /\ [][NextComp]_vars

(***************************************************************************)
(* Specification SpecApp: a script creates an application with createApp   *)
(* and calls mount and unmount on it in any order, catching what a call    *)
(* throws, with a microtask checkpoint possible between any two calls.     *)
(***************************************************************************)
RootComponents ==
  { createApp(name, NoProps) : name \in ComponentNames }
  \cup { createApp("Multi", Props(Undefined, ("n" :> n), EmptyMap)) : n \in {"0", "1", "2"} }

UNCHANGED_NotApp ==
  UNCHANGED <<dOld, dNew, dFn, dSt, dPc, eqOne, eqTwo, eqResult, sch, cur, obs, slots, pure, router>>

InitApp ==
  /\ app \in RootComponents
  /\ w = WorldInit /\ cur = CurInit /\ obs = ObsInit /\ call = CallInit /\ slots = SlotsInit
  /\ IdleDiff /\ IdleEq /\ IdleSch
  /\ IdlePure /\ IdleRouter

AppCalled(op, R) ==
  [op |-> op, wasMounted |-> app.isMounted, error |-> R.error, before |-> w, n |-> call.n + 1]

AppMount ==
  /\ call.n < MaxCalls
  /\ LET Returned(r) ==
           /\ w' = Caught(r.W)
           /\ app' = r.app
           /\ call' = AppCalled("mount", r.W)
     IN Returned(app_mount(w, app, Container))
  /\ UNCHANGED_NotApp

AppUnmount ==
  /\ call.n < MaxCalls
  /\ LET Returned(r) ==
           /\ w' = Caught(r.W)
           /\ app' = r.app
           /\ call' = AppCalled("unmount", r.W)
     IN Returned(app_unmount(w, app))
  /\ UNCHANGED_NotApp

NextApp == AppMount \/ AppUnmount \/ Checkpoint

SpecApp == InitApp /\ [][NextApp]_vars

(***************************************************************************)
(* Specification SpecSlots: fillSlots applied to what a render function    *)
(* returned, for every arrangement of up to MaxSlotKids children under     *)
(* the root and the renders of Card and Box, with no, one or two external  *)
(* children.                                                               *)
(***************************************************************************)
MaxSlotKids == 3     \* longest child list under the root of a rendered tree

SlotKids ==
  { hString("x"),
    hSlot(<<>>),
    hSlot(<<hString("d")>>),
    hSlot(<<hSlot(<<>>), h("b", NoProps, <<hSlot(<<hString("e")>>)>>)>>),
    h("p", NoProps, <<hSlot(<<hString("d")>>)>>),
    h("Box", NoProps, <<hSlot(<<>>)>>) }

CardRender == RenderFn("Card", EmptyMap, StateFn("Card", EmptyMap), 0)
CardContent == <<hString("Custom Header"), h("p", NoProps, <<JsString("Custom Content")>>)>>

Rendered ==
  {h("div", NoProps, kids) : kids \in SeqsUpTo(SlotKids, MaxSlotKids)}
  \cup {CardRender, RenderFn("Box", EmptyMap, StateFn("Box", EmptyMap), 0)}

ExternalContents == {<<>>, <<hString("a")>>, CardContent}

UNCHANGED_NotSlots ==
  UNCHANGED <<dOld, dNew, dFn, dSt, dPc, eqOne, eqTwo, eqResult, sch, w, cur, obs, app, call, pure, router>>

InitSlots ==
  /\ \E vdom \in Rendered, externalContent \in ExternalContents :
       slots = [vdom |-> vdom, externalContent |-> externalContent, result |-> NoVdom,
                pc |-> "rendered"]
  /\ w = WorldInit /\ cur = CurInit /\ obs = ObsInit /\ app = AppInit /\ call = CallInit
  /\ IdleDiff /\ IdleEq /\ IdleSch
  /\ IdlePure /\ IdleRouter

\* render(): if (didCreateSlot()) { fillSlots(vdom, this.#children) }
FillSlots ==
  /\ slots.pc = "rendered"
  /\ slots' = [slots EXCEPT !.result = fillSlots(slots.vdom, slots.externalContent),
                            !.pc = "filled"]
  /\ UNCHANGED_NotSlots

NextSlots == FillSlots

SpecSlots == InitSlots /\ [][NextSlots]_vars

(***************************************************************************)
(* One element is mounted and then patched to other props (SpecEl).        *)
(***************************************************************************)
MaxClassLen == 3      \* characters of a class string
MaxClassItems == 2    \* entries of a class array

ClassValues ==
  {NoClass}
  \cup {ClassString(text) : text \in SeqsUpTo({"a", "b", Space}, MaxClassLen)}
  \cup {ClassArray(list) : list \in SeqsUpTo({<<"a">>, <<"b">>, <<>>, <<Space>>}, MaxClassItems)}

MapsOver(names, values) == UNION {[keys -> values] : keys \in SUBSET names}

AttrMaps == MapsOver({"id", "title"}, {"abc", "def", Undefined})
StyleMaps == MapsOver({"color", "margin"}, {"red", "blue"})

PropsOf(attrs, class, style) ==
  [Props(Undefined, attrs @@ EmptyMap, EmptyMap) EXCEPT !.class = class, !.style = style @@ EmptyMap]

ElementProps ==
  {PropsOf(attrs, NoClass, EmptyMap) : attrs \in AttrMaps}
  \cup {PropsOf(EmptyMap, class, EmptyMap) : class \in ClassValues}
  \cup {PropsOf(EmptyMap, NoClass, style) : style \in StyleMaps}
  \cup {PropsOf(attrs, class, style) :
          attrs \in {("id" :> "abc")},
          class \in {ClassString(<<"a", Space, "b">>), ClassArray(<< <<"b">> >>)},
          style \in {("color" :> "red"), ("color" :> "blue") @@ ("margin" :> "red")}}

\* mountDOM(h("div", props), container)
MountElement ==
  /\ cur.phase = "none"
  /\ \E props \in ElementProps :
       LET Returned(R, tree1) ==
             /\ w' = R
             /\ cur' = After(R, tree1, "mount")
           Built(built) ==
             Returned(mountDOM(Before(built.next), built.tree, Container, NullIndex, Absent),
                      built.tree)
       IN /\ Built(Build(h("div", props, <<>>)))
          /\ obs' = [op |-> "mount", before |-> w, old |-> NoVdom]
  /\ UNCHANGED_NotDom

\* patchDOM(old, h("div", props), container): the two are equal nodes, patchElement runs
PatchElement ==
  /\ cur.phase = "live"
  /\ \A i \in 1..Len(cur.history) : cur.history[i] # "patch"
  /\ \E props \in ElementProps :
       LET Returned(R, tree1) ==
             /\ w' = R
             /\ cur' = After(R, tree1, "patch")
           Built(built) ==
             Returned(patchDOM(Before(built.next), cur.tree, built.tree, Container, Absent),
                      built.tree)
       IN /\ Built(Build(h("div", props, <<>>)))
          /\ obs' = [op |-> "patch", before |-> w, old |-> cur.tree]
  /\ UNCHANGED_NotDom

NextEl == MountElement \/ PatchElement

SpecEl == InitDom /\ [][NextEl]_vars

(***************************************************************************)
(* Units are mounted into a list at given positions (SpecInsert).          *)
(***************************************************************************)
MaxInserts == 3       \* mountDOM calls on the list

List == Stamp(h("ul", NoProps, <<>>), WorldInit.nextObj)

ListEl == Len(WorldInit.nodes) + 1

Units == {hString("a"), h("li", NoProps, <<>>), h("li", NoProps, <<hString("b")>>)}

Positions == {NullIndex, -1} \cup 0..(MaxInserts + 1)

\* the list is mounted, empty, into the container
InitInsert ==
  /\ w = mountDOM([WorldInit EXCEPT !.nextObj = List.next], List.tree, Container, NullIndex, Absent)
  /\ cur = CurInit /\ obs = ObsInit /\ IdleCalls
  /\ IdleDiff /\ IdleEq /\ IdleSch

\* mountDOM(unit, list, index); the caller catches what it throws
InsertUnit ==
  /\ Len(cur.history) < MaxInserts
  /\ \E unit \in Units, index \in Positions :
       LET Returned(R, tree1) ==
             /\ w' = Caught(R)
             /\ cur' = [After(R, tree1, "mount") EXCEPT !.index = index]
           Built(built) ==
             Returned(mountDOM(Before(built.next), built.tree, ListEl, index, Absent),
                      built.tree)
       IN /\ Built(Build(unit))
          /\ obs' = [op |-> "mount", before |-> w, old |-> NoVdom]
  /\ UNCHANGED_NotDom

NextInsert == InsertUnit

SpecInsert == InitInsert /\ [][NextInsert]_vars

(***************************************************************************)
(* The three engines are called on nodes of any variant (SpecVariant).     *)
(***************************************************************************)
MaxEngineCalls == 3   \* calls of mountDOM, destroyDOM and patchDOM

Nodes ==
  { hString("a"), h("div", NoProps, <<hString("a")>>),
    hSlot(<<>>), hSlot(<<hString("a")>>), h("div", NoProps, <<hSlot(<<>>)>>) }

\* the nodes a caller holds: new ones, and the one the last call left live
Held == Nodes \cup (IF cur.phase = "live" THEN {cur.tree} ELSE {})

\* mountDOM(node, container); the caller catches what it throws
MountNode ==
  /\ Len(cur.history) < MaxEngineCalls
  /\ \E node \in Nodes :
       LET Returned(R, tree1) ==
             /\ w' = Caught(R)
             /\ cur' = After(R, tree1, "mount")
           Built(built) ==
             Returned(mountDOM(Before(built.next), built.tree, Container, NullIndex, Absent),
                      built.tree)
       IN /\ Built(Build(node))
          /\ obs' = [op |-> "mount", before |-> w, old |-> NoVdom]
  /\ UNCHANGED_NotDom

\* destroyDOM(node)
DestroyNode ==
  /\ Len(cur.history) < MaxEngineCalls
  /\ \E node \in Held :
       LET Returned(R, tree1) ==
             /\ w' = Caught(R)
             /\ cur' = After(R, tree1, "destroy")
           Built(built) == Returned(destroyDOM(Before(built.next), built.tree), built.tree)
       IN /\ Built(Build(node))
          /\ obs' = [op |-> "destroy", before |-> w, old |-> NoVdom]
  /\ UNCHANGED_NotDom

\* patchDOM(old, new, container)
PatchNodes ==
  /\ Len(cur.history) < MaxEngineCalls
  /\ \E old \in Held, new \in Nodes :
       LET Returned(R, old1, new1) ==
             /\ w' = Caught(R)
             /\ cur' = After(R, new1, "patch")
             /\ obs' = [op |-> "patch", before |-> w, old |-> old1]
           BuiltNew(old1, built) ==
             Returned(patchDOM(Before(built.next), old1, built.tree, Container, Absent),
                      old1, built.tree)
           BuiltOld(built) == BuiltNew(built.tree, Stamp(new, built.next))
       IN BuiltOld(Build(old))
  /\ UNCHANGED_NotDom

NextVariant == MountNode \/ DestroyNode \/ PatchNodes

SpecVariant == InitDom /\ [][NextVariant]_vars

(***************************************************************************)
(* The functions without effects are applied to their inputs (SpecPure).   *)
(***************************************************************************)
Objects == MapsOver({"id", "title", "toString"}, {"abc", "def"})

Input(fn, args) == [fn |-> fn, args |-> args, result |-> <<>>, pc |-> "ready"]

ObjectsDiffInputs == {Input("objectsDiff", <<oldObj @@ EmptyMap, newObj @@ EmptyMap>>) :
                        oldObj \in Objects, newObj \in Objects}

MaxChildren == 3      \* entries of a children array given to h and hFragment

ChildEntries ==
  {JsNull, JsUndefined, JsString("a"), JsString(""), hString("x"), h("b", NoProps, <<>>)}

ChildArrays == SeqsUpTo(ChildEntries, MaxChildren)

HInputs ==
  {Input("h", <<tag>>) : tag \in {"div", "Counter"}}
  \cup {Input("h", <<tag, props>>) : tag \in {"div", "Counter"},
                                     props \in {NoProps, Props("k1", ("id" :> "abc"), EmptyMap)}}
  \cup {Input("h", <<tag, props, children>>) :
          tag \in {"div", "Counter"},
          props \in {NoProps, Props("k1", ("id" :> "abc"), EmptyMap)},
          children \in ChildArrays}

HFragmentInputs == {Input("hFragment", <<vNodes>>) : vNodes \in ChildArrays}

MaxDepth == 3         \* fragments nested in the children of a node
MaxFlatKids == 2      \* children of a node given to extractChildren

\* fragments nested to the depth given, next to nodes that keep their children
RECURSIVE FragmentsOfDepth(_)
FragmentsOfDepth(depth) ==
  IF depth = 0 THEN {}
  ELSE {hFragment(<<>>), hFragment(<<hString("b")>>)}
       \cup {hFragment(<<inner, hString("c")>>) : inner \in FragmentsOfDepth(depth - 1)}

FlatKids ==
  {hString("a"),
   h("p", NoProps, <<hFragment(<<hString("x")>>)>>),
   h("Counter", NoProps, <<hFragment(<<hString("y")>>)>>)}
  \cup FragmentsOfDepth(MaxDepth - 1)

ExtractChildrenInputs ==
  {Input("extractChildren", <<hString("a")>>)}
  \cup {Input("extractChildren", <<h(tag, NoProps, kids)>>) :
          tag \in {"div", "Counter"}, kids \in SeqsUpTo(FlatKids, MaxFlatKids)}
  \cup {Input("extractChildren", <<hFragment(kids)>>) : kids \in SeqsUpTo(FlatKids, MaxFlatKids)}

InitPure ==
  /\ \/ pure \in ObjectsDiffInputs
     \/ pure \in HInputs
     \/ pure \in HFragmentInputs
     \/ pure \in ExtractChildrenInputs
  /\ IdleDiff /\ IdleEq /\ IdleSch
  /\ w = WorldInit /\ cur = CurInit /\ obs = ObsInit
  /\ app = AppInit /\ call = CallInit /\ slots = SlotsInit /\ IdleRouter

UNCHANGED_NotPure ==
  UNCHANGED <<dOld, dNew, dFn, dSt, dPc, eqOne, eqTwo, eqResult, sch, w, cur, obs, app, call, slots, router>>

Returns(result) == pure' = [pure EXCEPT !.result = result, !.pc = "done"]

ApplyObjectsDiff ==
  /\ pure.pc = "ready" /\ pure.fn = "objectsDiff"
  /\ Returns(objectsDiff(pure.args[1], pure.args[2]))
  /\ UNCHANGED_NotPure

ApplyH ==
  /\ pure.pc = "ready" /\ pure.fn = "h"
  /\ Returns(hCall(pure.args))
  /\ UNCHANGED_NotPure

ApplyHFragment ==
  /\ pure.pc = "ready" /\ pure.fn = "hFragment"
  /\ Returns(hFragment(pure.args[1]))
  /\ UNCHANGED_NotPure

ApplyExtractChildren ==
  /\ pure.pc = "ready" /\ pure.fn = "extractChildren"
  /\ Returns(extractChildren(pure.args[1]))
  /\ UNCHANGED_NotPure

NextPure == ApplyObjectsDiff \/ ApplyH \/ ApplyHFragment \/ ApplyExtractChildren

SpecPure == InitPure /\ [][NextPure]_vars

(***************************************************************************)
(* Trees of nested components are mounted and the hooks run (SpecHooks).   *)
(***************************************************************************)
MaxMounts == 2        \* mountDOM calls on the container
MaxNested == 2        \* children given to the outer component

NestedKids ==
  { hString("a"), h("Counter", NoProps, <<>>),
    h("Box", NoProps, <<h("Counter", NoProps, <<>>)>>) }

NestedTrees == {h("Box", NoProps, kids) : kids \in SeqsUpTo(NestedKids, MaxNested)}

\* mountDOM(tree, container, index) of a component with components in its content
MountNested ==
  /\ cur.phase \in {"none", "live"} /\ Len(cur.history) < MaxMounts
  /\ \E tree \in NestedTrees, index \in {NullIndex, 0} :
       LET Returned(R, tree1) ==
             /\ w' = R
             /\ cur' = [After(R, tree1, "mount") EXCEPT !.index = index]
           Built(built) ==
             Returned(mountDOM(Before(built.next), built.tree, Container, index, Absent),
                      built.tree)
       IN /\ Built(Build(tree))
          /\ obs' = [op |-> "mount", before |-> w, old |-> NoVdom]
  /\ UNCHANGED_NotDom

NextHooks == MountNested \/ Checkpoint

SpecHooks == InitDom /\ [][NextHooks]_vars

(***************************************************************************)
(* Fragments with fragments and components among their children are        *)
(* mounted into the container, which holds one <hr> (SpecFragment).        *)
(***************************************************************************)
MaxFragmentKids == 2  \* children of the fragment that is mounted

FragmentKids ==
  { hString("a"), h("p", NoProps, <<>>),
    h("Counter", NoProps, <<>>),
    h("Multi", Props(Undefined, ("n" :> "2"), EmptyMap), <<>>),
    h("Multi", Props(Undefined, ("n" :> "0"), EmptyMap), <<>>),
    hFragment(<<>>),
    hFragment(<<hString("a"), hString("b")>>),
    hFragment(<<hFragment(<<hString("a"), hString("b")>>)>>),
    hFragment(<<h("Multi", Props(Undefined, ("n" :> "2"), EmptyMap), <<>>)>>) }

FragmentTrees == {hFragment(kids) : kids \in SeqsUpTo(FragmentKids, MaxFragmentKids)}

\* mountDOM(fragment, container, index) with index null, 0 or 1
MountFragment ==
  /\ cur.phase = "none"
  /\ \E tree \in FragmentTrees, index \in {NullIndex, 0, 1} :
       LET Returned(R, tree1) ==
             /\ w' = R
             /\ cur' = [After(R, tree1, "mount") EXCEPT !.index = index]
           Built(built) ==
             Returned(mountDOM(Before(built.next), built.tree, Container, index, Absent),
                      built.tree)
       IN /\ Built(Build(tree))
          /\ obs' = [op |-> "mount", before |-> w, old |-> NoVdom]
  /\ UNCHANGED_NotDom

NextFragment == MountFragment \/ Checkpoint

SpecFragment == InitDom /\ [][NextFragment]_vars

(***************************************************************************)
(* A parent re-renders components whose view is a fragment: Multi, whose   *)
(* fragment holds the items, and Rows, whose fragment holds the <ul> that  *)
(* holds them.  The container holds one <hr> (SpecOffset).                 *)
(***************************************************************************)
MaxItems == 2         \* items a Multi or a Rows is asked to render
MaxRenders == 2       \* patchDOM calls after the mount

OffsetTrees ==
  UNION { {hFragment(<<h(name, Props(Undefined, ("n" :> Digits[n + 1]), EmptyMap), <<>>)>>),
           h("div", NoProps, <<h(name, Props(Undefined, ("n" :> Digits[n + 1]), EmptyMap), <<>>)>>)} :
          name \in {"Multi", "Rows"}, n \in 0..MaxItems }

\* mountDOM(tree, container, index), with index null or 0
MountParent ==
  /\ cur.phase = "none"
  /\ \E tree \in OffsetTrees, index \in {NullIndex, 0} :
       LET Returned(R, tree1) ==
             /\ w' = R
             /\ cur' = [After(R, tree1, "mount") EXCEPT !.index = index]
           Built(built) ==
             Returned(mountDOM(Before(built.next), built.tree, Container, index, Absent),
                      built.tree)
       IN /\ Built(Build(tree))
          /\ obs' = [op |-> "mount", before |-> w, old |-> NoVdom]
  /\ UNCHANGED_NotDom

\* patchDOM(old, new, container) with the tree of the parent's next render
PatchParent ==
  /\ cur.phase = "live" /\ Calls < MaxRenders
  /\ \E tree \in OffsetTrees :
       LET Returned(R, tree1) ==
             /\ w' = R
             /\ cur' = After(R, tree1, "patch")
           Built(built) ==
             Returned(patchDOM(Before(built.next), cur.tree, built.tree, Container, Absent),
                      built.tree)
       IN /\ Built(Build(tree))
          /\ obs' = [op |-> "patch", before |-> w, old |-> cur.tree]
  /\ UNCHANGED_NotDom

NextOffset == MountParent \/ PatchParent \/ Checkpoint

SpecOffset == InitDom /\ [][NextOffset]_vars

(***************************************************************************)
(* A <button> with a <span> in it, both with event handlers, is mounted,   *)
(* patched to other handlers and destroyed (SpecEvents).                   *)
(***************************************************************************)
MaxEventPatches == 2  \* patchDOM calls after the mount

\* the `on` maps: handler function 1 or 2 for click and for input
EventMaps == MapsOver({"click", "input"}, {1, 2})
InnerEventMaps == MapsOver({"click"}, {1, 2})

Buttons ==
  {h("button", Props(Undefined, EmptyMap, on @@ EmptyMap),
     <<h("span", Props(Undefined, EmptyMap, inner @@ EmptyMap), <<>>)>>) :
     on \in EventMaps, inner \in InnerEventMaps}

\* mountDOM(button, container)
MountButton ==
  /\ cur.phase = "none"
  /\ \E tree \in Buttons :
       LET Returned(R, tree1) ==
             /\ w' = R
             /\ cur' = After(R, tree1, "mount")
           Built(built) ==
             Returned(mountDOM(Before(built.next), built.tree, Container, NullIndex, Absent),
                      built.tree)
       IN /\ Built(Build(tree))
          /\ obs' = [op |-> "mount", before |-> w, old |-> NoVdom]
  /\ UNCHANGED_NotDom

\* patchDOM(old, button, container) with the next render of the button
PatchButton ==
  /\ cur.phase = "live" /\ Calls < MaxEventPatches
  /\ \E tree \in Buttons :
       LET Returned(R, tree1) ==
             /\ w' = R
             /\ cur' = After(R, tree1, "patch")
           Built(built) ==
             Returned(patchDOM(Before(built.next), cur.tree, built.tree, Container, Absent),
                      built.tree)
       IN /\ Built(Build(tree))
          /\ obs' = [op |-> "patch", before |-> w, old |-> cur.tree]
  /\ UNCHANGED_NotDom

NextEvents == MountButton \/ PatchButton \/ DestroyTree

SpecEvents == InitDom /\ [][NextEvents]_vars

(***************************************************************************)
(* Specification SpecRouter: an application created with a HashRouter      *)
(* whose routes have the path "/".  A script calls mount and unmount on    *)
(* the application and init on the router, up to MaxRouterCalls times,     *)
(* catching what a call throws; the asynchronous calls of the router       *)
(* resume between those calls or after them, in any order.                 *)
(***************************************************************************)
MaxRouterCalls == 4   \* calls of mount, unmount and init in one behaviour

UNCHANGED_NotRouter ==
  UNCHANGED <<dOld, dNew, dFn, dSt, dPc, eqOne, eqTwo, eqResult, sch, cur, obs, slots, pure>>

RoutedMount ==
  /\ call.n < MaxRouterCalls
  /\ LET Returned(r) ==
           /\ w' = Caught(r.W)
           /\ app' = r.app
           /\ router' = r.router
           /\ call' = AppCalled("mount", r.W)
     IN Returned(routed_mount(w, app, router, Container))
  /\ UNCHANGED_NotRouter

RoutedUnmount ==
  /\ call.n < MaxRouterCalls
  /\ LET Returned(r) ==
           /\ w' = Caught(r.W)
           /\ app' = r.app
           /\ router' = r.router
           /\ call' = AppCalled("unmount", r.W)
     IN Returned(routed_unmount(w, app, router))
  /\ UNCHANGED_NotRouter

\* the script calls router.init() itself
InitCalled ==
  /\ call.n < MaxRouterCalls
  /\ router' = init(router)
  /\ call' = AppCalled("init", w)
  /\ UNCHANGED <<w, app>>
  /\ UNCHANGED_NotRouter

\* the promise of #canChangeRoute settles: navigateTo runs to its end
ResumeNavigateTo ==
  /\ \E i \in 1..Len(router.pending) :
       /\ router.pending[i] = "navigateTo"
       /\ router' = navigateTo(router, i)
  /\ UNCHANGED <<w, app, call>>
  /\ UNCHANGED_NotRouter

\* the promise of #matchCurrentRoute settles: init runs to its end
ResumeInit ==
  /\ \E i \in 1..Len(router.pending) :
       /\ router.pending[i] = "init"
       /\ router' = initialized(router, i)
  /\ UNCHANGED <<w, app, call>>
  /\ UNCHANGED_NotRouter

\* the microtask queued by the hooks of the root component runs
RouterCheckpoint ==
  /\ w.sch.microtasks # <<>>
  /\ w' = [w EXCEPT !.sch = processJobs([@ EXCEPT !.microtasks = Tail(@)])]
  /\ UNCHANGED <<app, call, router>>
  /\ UNCHANGED_NotRouter

NextRouter ==
  RoutedMount \/ RoutedUnmount \/ InitCalled \/ ResumeNavigateTo \/ ResumeInit
    \/ RouterCheckpoint

SpecRouter == InitApp /\ [][NextRouter]_vars

(***************************************************************************)
(* Properties of arraysDiffSequence (SpecDiff).                            *)
(***************************************************************************)
\* what applying one emitted operation to a copy of the old sequence means
ApplyOperation(s, operation) ==
  CASE operation.op = ARRAY_DIFF_OP.REMOVE -> SubSeq(s, 1, operation.index) \o SubSeq(s, operation.index + 2, Len(s))
    [] operation.op = ARRAY_DIFF_OP.ADD ->
         SubSeq(s, 1, operation.index) \o <<operation.item>> \o SubSeq(s, operation.index + 1, Len(s))
    [] operation.op = ARRAY_DIFF_OP.MOVE ->
         LET taken == s[operation.from + 1]
             rest == SubSeq(s, 1, operation.from) \o SubSeq(s, operation.from + 2, Len(s))
         IN SubSeq(rest, 1, operation.index) \o <<taken>> \o SubSeq(rest, operation.index + 1, Len(rest))
    [] OTHER -> s

RECURSIVE ApplyOperations(_, _)
ApplyOperations(s, operations) ==
  IF operations = <<>> THEN s
  ELSE ApplyOperations(ApplyOperation(s, Head(operations)), Tail(operations))

OpsOf(kind) == {i \in 1..Len(dSt.sequence) : dSt.sequence[i].op = kind}

\* C2: once arraysDiffSequence has returned, applying its operations in emitted
\* order to a copy of the old sequence gives a sequence of the new sequence's
\* length whose elements equal the new sequence's, position by position.
C2_RoundTrip ==
  dPc = "done" =>
    LET result == ApplyOperations(dOld, dSt.sequence)
    IN /\ Len(result) = Len(dNew)
       /\ \A i \in 1..Len(dNew) : equalsFn(dFn, result[i], dNew[i])

C2_Witness ==
  /\ dPc = "done"
  /\ OpsOf(ARRAY_DIFF_OP.MOVE) # {} /\ OpsOf(ARRAY_DIFF_OP.REMOVE) # {}
  /\ OpsOf(ARRAY_DIFF_OP.ADD) # {}
  /\ ApplyOperations(dOld, dSt.sequence) # dOld

IsDistinct(s) == \A i, j \in 1..Len(s) : i # j => s[i] # s[j]
IsPermutation(s, t) ==
  Len(s) = Len(t) /\ {s[i] : i \in 1..Len(s)} = {t[i] : i \in 1..Len(t)}

\* C8: with the default (primitive) equality, when the new sequence is a
\* permutation of an old sequence of pairwise distinct elements, no ADD and no
\* REMOVE is ever emitted: every operation is a MOVE or a NOOP.
C8_ReorderOnlyMoves ==
  (dFn = "strict" /\ IsDistinct(dOld) /\ IsDistinct(dNew) /\ IsPermutation(dOld, dNew)) =>
    /\ OpsOf(ARRAY_DIFF_OP.ADD) = {}
    /\ OpsOf(ARRAY_DIFF_OP.REMOVE) = {}

C8_Witness ==
  /\ dPc = "done" /\ dFn = "strict"
  /\ dOld = <<"A", "B", "C">> /\ dNew = <<"C", "B", "A">>
  /\ OpsOf(ARRAY_DIFF_OP.MOVE) # {}
  /\ Len(dSt.sequence) = 3

(***************************************************************************)
(* Properties of areNodesEqual (SpecEq).                                   *)
(***************************************************************************)
SameTagAndKey(a, b) == a.tag = b.tag /\ a.props.key = b.props.key

\* C7 as stated: equal exactly when the variants agree and the variant is Text
\* or Fragment, or the two are Elements, or Component references, of the same
\* tag (definition) and key.
C7_AsStated ==
  eqResult # "unknown" =>
    ((eqResult = "equal") <=>
       /\ eqOne.type = eqTwo.type
       /\ \/ eqOne.type \in {DOM_TYPES.TEXT, DOM_TYPES.FRAGMENT}
          \/ eqOne.type = DOM_TYPES.ELEMENT /\ SameTagAndKey(eqOne, eqTwo)
          \/ eqOne.type = DOM_TYPES.COMPONENT /\ SameTagAndKey(eqOne, eqTwo))

\* C7 as amended: two Slot placeholders are equal as well. The answer is decided
\* by variant, tag and key alone (never by text, other props or children), it
\* is "equal" for a node and itself, and "different" for different variants.
C7_Equality ==
  eqResult # "unknown" =>
    /\ (eqResult = "equal") <=>
         /\ eqOne.type = eqTwo.type
         /\ \/ eqOne.type \in {DOM_TYPES.TEXT, DOM_TYPES.FRAGMENT, DOM_TYPES.SLOT}
            \/ eqOne.type = DOM_TYPES.ELEMENT /\ SameTagAndKey(eqOne, eqTwo)
            \/ eqOne.type = DOM_TYPES.COMPONENT /\ SameTagAndKey(eqOne, eqTwo)
    /\ eqOne = eqTwo => eqResult = "equal"
    /\ eqOne.type # eqTwo.type => eqResult = "different"

C7_Witness ==
  /\ eqResult = "equal"
  /\ eqOne.type = DOM_TYPES.ELEMENT /\ eqOne.props.key = "k1"
  /\ eqOne.props.attrs # eqTwo.props.attrs /\ eqOne.children # eqTwo.children

(***************************************************************************)
(* Properties of the scheduler (SpecSched).                                *)
(***************************************************************************)
\* C10: the jobs started so far are, in order, the first jobs submitted: the
\* i-th job to start is the i-th job that was handed to enqueueJob.
C10_Fifo ==
  /\ Len(sch.started) <= Len(sch.submitted)
  /\ \A i \in 1..Len(sch.started) : sch.started[i].id = sch.submitted[i]

\* a drain has run between two submissions, and one job was submitted by a job
C10_Witness ==
  /\ Len(sch.started) >= 3
  /\ Len(sch.submitted) > Len(sch.started)
  /\ sch.jobs # <<>>
  /\ sch.uncaught = <<>>

\* C11: a job that fails, by throwing or by returning a promise that rejects,
\* never lets its failure leave processJobs, and the jobs queued after it are
\* executed by the same drain: once no drain is pending, no job is waiting.
C11_AsStated ==
  /\ sch.uncaught = <<>>
  /\ sch.microtasks = <<>> => sch.jobs = <<>>

\* a step in which processJobs ran
IsDrain == sch'.started # sch.started \/ Len(sch'.microtasks) < Len(sch.microtasks)

\* C12: a job submitted while processJobs is draining is executed within that
\* pass and no further microtask is scheduled for it; when the pass ends every
\* submitted job has been started, the queue is empty and isScheduled is false.
C12_AsStated ==
  [][IsDrain => /\ sch'.jobs = <<>>
                /\ ~ sch'.isScheduled
                /\ Len(sch'.started) = Len(sch'.submitted)
                /\ sch'.microtasks = Tail(sch.microtasks)]_vars

\* C13: when the promise of a nextTick() call resolves, every job that was in
\* the queue at the call has been executed.
C13_AsStated ==
  \A i \in 1..Len(sch.ticks) :
    sch.ticks[i].resolved =>
      \A k \in 1..Len(sch.ticks[i].queuedAtCall) :
        \E m \in 1..Len(sch.ticks[i].startedAtResolve) :
          sch.ticks[i].startedAtResolve[m].id = sch.ticks[i].queuedAtCall[k].id

(***************************************************************************)
(* Properties of the component instance (SpecComp).                        *)
(***************************************************************************)
\* C14: mount() throws exactly when the instance is mounted at the call, and
\* updateState(), updateProps() and unmount() throw exactly when it is not.
C14_AsStated ==
  /\ call.op = "mount" => (call.error # "" <=> call.wasMounted)
  /\ call.op \in {"updateState", "updateProps", "unmount"} =>
       (call.error # "" <=> ~ call.wasMounted)

(***************************************************************************)
(* Properties of the application object (SpecApp).                         *)
(***************************************************************************)
\* C15: mount throws 'The application is already mounted' exactly when the
\* application is mounted, unmount throws 'The application is not mounted'
\* exactly when it is not, a successful unmount leaves parentEl, isMounted and
\* vdom as createApp made them, and the mount that follows it succeeds.
C15_AppLifecycle ==
  /\ [](/\ call.op = "mount" =>
             (call.error = "The application is already mounted" <=> call.wasMounted)
        /\ call.op = "unmount" =>
             (call.error = "The application is not mounted" <=> ~ call.wasMounted)
        /\ (call.op = "unmount" /\ call.error = "") =>
             (app.parentEl = Absent /\ ~ app.isMounted /\ app.vdom = NoVdom))
  /\ [][(call.op = "unmount" /\ call.error = "" /\ call'.op = "mount") =>
          (call'.error = "" /\ app'.isMounted /\ app'.parentEl = Container)]_vars

\* mount, unmount, mount again, and a second mount that is refused
C15_Witness ==
  /\ call.n = 4 /\ call.op = "mount" /\ call.wasMounted
  /\ call.error = "The application is already mounted"
  /\ Len(w.inst) = 2 /\ ~ w.inst[1].isMounted /\ w.inst[2].isMounted

(***************************************************************************)
(* Properties of fillSlots (SpecSlots).                                    *)
(***************************************************************************)
\* no slot node in the tree, component nodes and what they hold left aside
RECURSIVE NoSlotOutside(_)
NoSlotOutside(v) ==
  /\ v.type # DOM_TYPES.SLOT
  /\ (v.type # DOM_TYPES.COMPONENT /\ "children" \in DOMAIN v) =>
       \A k \in 1..Len(v.children) : NoSlotOutside(v.children[k])

\* the tree with every slot replaced as the contract says
RECURSIVE Filled(_, _), FilledAll(_, _)
Filled(v, externalContent) ==
  IF v.type = DOM_TYPES.COMPONENT \/ "children" \notin DOMAIN v THEN v
  ELSE [v EXCEPT !.children = FilledAll(@, externalContent)]

FilledAll(children, externalContent) ==
  IF children = <<>> THEN <<>>
  ELSE LET child == Head(children)
       IN (IF child.type # DOM_TYPES.SLOT THEN <<Filled(child, externalContent)>>
           ELSE IF externalContent # <<>> THEN <<hFragment(externalContent)>>
           ELSE IF child.children # <<>>
           THEN <<hFragment(FilledAll(child.children, externalContent))>>
           ELSE <<>>)
          \o FilledAll(Tail(children), externalContent)

\* C16: what render() returns holds no slot node outside the component nodes
\* below it, and is the rendered tree with every slot replaced by the external
\* children if there are any, else by its default children, else by nothing.
C16_AsStated ==
  slots.pc = "filled" =>
    /\ NoSlotOutside(slots.result)
    /\ slots.result = Filled(slots.vdom, slots.externalContent)

\* C17: in the Card example, with the two children the parent supplies, the
\* header holds the first child only and the main the second child only.
C17_AsStated ==
  (slots.pc = "filled" /\ slots.vdom = CardRender /\ slots.externalContent = CardContent) =>
    /\ extractChildren(slots.result.children[1]) = <<hString("Custom Header")>>
    /\ extractChildren(slots.result.children[2])
         = <<h("p", NoProps, <<hString("Custom Content")>>)>>

(***************************************************************************)
(* Properties of the mount, destroy and patch engines (SpecDom).           *)
(***************************************************************************)
Did(op) == \E i \in 1..Len(cur.history) : cur.history[i] = op

\* the world a fresh mount of the tree at the given index produces
FreshMount(tree, index) ==
  mountDOM([WorldInit EXCEPT !.nextObj = w.nextObj], tree, Container, index, Absent)

\* C1: after patchDOM(old, new, container) has returned, the container and
\* everything below it is what mounting the new tree into the untouched
\* container, at the index the old tree was mounted at, produces.
C1_PatchIsFreshMount ==
  (obs.op = "patch" /\ Ok(w) /\ ~ Did("update") /\ Ok(FreshMount(cur.tree, cur.index))) =>
    Shape(w, Container) = Shape(FreshMount(cur.tree, cur.index), Container)

\* C3: every patchDOM call on two equal nodes leaves the new node with the old
\* node's back-reference (the live node of a Text or an Element, the container
\* of a Fragment, the instance of a Component reference), leaves that live node
\* under the parent it had, and on a Text node performs one write of the text
\* when the two strings differ and nothing at all when they are the same.
C3_EqualNodesAreReused ==
  \A r \in w.reused :
    /\ r.type \in {DOM_TYPES.TEXT, DOM_TYPES.ELEMENT, DOM_TYPES.FRAGMENT} => r.elAfter = r.elBefore
    /\ r.type = DOM_TYPES.COMPONENT => r.componentAfter = r.componentBefore
    /\ r.type \in {DOM_TYPES.TEXT, DOM_TYPES.ELEMENT} => r.parentAfter = r.parentBefore
    /\ r.type = DOM_TYPES.TEXT =>
         /\ r.otherWrites = 0
         /\ r.textWrites = (IF r.sameText THEN 0 ELSE 1)

C3_Witness ==
  /\ obs.op = "patch" /\ Ok(w)
  /\ \E r \in w.reused : r.type = DOM_TYPES.TEXT /\ ~ r.sameText /\ r.textWrites = 1
  /\ \E r \in w.reused : r.type = DOM_TYPES.TEXT /\ r.sameText /\ r.elAfter # Absent
  /\ \E r \in w.reused : r.type = DOM_TYPES.ELEMENT /\ r.elAfter # Absent
  /\ \E r \in w.reused : r.type = DOM_TYPES.COMPONENT /\ r.componentAfter # Absent

\* the children of the old and of the new root that patchChildren compares
OldKids == extractChildren(obs.old)
NewKids == extractChildren(cur.tree)
OldMatches(j) == {i \in 1..Len(OldKids) : areNodesEqual(OldKids[i], NewKids[j])}
NewMatches(i) == {j \in 1..Len(NewKids) : areNodesEqual(OldKids[i], NewKids[j])}
\* the new component children that have exactly one equal old child, which in
\* turn has no other equal new child
Kept == {j \in 1..Len(NewKids) :
           /\ NewKids[j].type = DOM_TYPES.COMPONENT
           /\ \E i \in 1..Len(OldKids) : OldMatches(j) = {i} /\ NewMatches(i) = {j}}
Added == {j \in 1..Len(NewKids) : NewKids[j].type = DOM_TYPES.COMPONENT /\ OldMatches(j) = {}}
RECURSIVE KeysOf(_)
KeysOf(kids) == IF kids = <<>> THEN <<>> ELSE <<Head(kids).props.key>> \o KeysOf(Tail(kids))
IsKeyedList(vdom) == vdom.type = DOM_TYPES.ELEMENT /\ vdom.tag = "ul"
IsParentRerender ==
  /\ obs.op = "patch" /\ Ok(w)
  /\ obs.old.type # DOM_TYPES.COMPONENT /\ areNodesEqual(obs.old, cur.tree)

\* C4: after a parent has been re-rendered, for every Component child of the
\* new list that is equal to an old child, the instance of that old child is
\* still mounted with the state it had before the patch, and instances were
\* constructed only for the Component children that have no equal old child.
\* For the keyed children "0", "1", "2" patched to "0", "2" the diff is one
\* NOOP for "0", one REMOVE for "1" and one NOOP for "2"; the new "0" and "2"
\* refer to the instances of the old ones and the instance of "1" is unmounted.
C4_InstanceReuse ==
  IsParentRerender =>
    /\ \A j \in Kept :
         LET i == CHOOSE i \in OldMatches(j) : TRUE
             c == Get(obs.before.component, OldKids[i].id)
         IN /\ c # Absent
            /\ w.inst[c].state = obs.before.inst[c].state
            /\ w.inst[c].isMounted
    /\ (\A j \in 1..Len(NewKids) : NewKids[j].type = DOM_TYPES.COMPONENT => j \in Kept \cup Added)
         => Len(w.inst) = Len(obs.before.inst) + Cardinality(Added)
    /\ (IsKeyedList(obs.old) /\ KeysOf(OldKids) = <<"0", "1", "2">> /\ KeysOf(NewKids) = <<"0", "2">>)
         => LET ops == arraysDiffSequence(OldKids, NewKids, "nodes")
            IN /\ Len(ops) = 3
               /\ {k \in 1..3 : ops[k].op = ARRAY_DIFF_OP.REMOVE} = {2}
               /\ ops[2].item.props.key = "1"
               /\ ops[1].op = ARRAY_DIFF_OP.NOOP /\ ops[1].originalIndex = 0
               /\ ops[3].op = ARRAY_DIFF_OP.NOOP /\ ops[3].originalIndex = 2
               /\ Get(w.component, NewKids[1].id) = Get(obs.before.component, OldKids[1].id)
               /\ Get(w.component, NewKids[2].id) = Get(obs.before.component, OldKids[3].id)
               /\ ~ w.inst[Get(obs.before.component, OldKids[2].id)].isMounted

\* the middle one of three keyed Counters is removed after the last one has
\* counted to 1
C4_Witness ==
  /\ IsParentRerender /\ Did("update")
  /\ IsKeyedList(obs.old) /\ KeysOf(OldKids) = <<"0", "1", "2">> /\ KeysOf(NewKids) = <<"0", "2">>
  /\ Kept = {1, 2}
  /\ w.inst[Get(w.component, NewKids[2].id)].state.count = 1

\* C18 as stated: when patchDOM has forwarded the props of a new Component
\* node to the instance of the old one, the props of the instance are those
\* props and nothing else.
C18_AsStated ==
  \A r \in w.reused :
    (r.type = DOM_TYPES.COMPONENT /\ r.componentBefore # Absent) =>
      r.propsAfter = r.propsForwarded

\* C18: when patchDOM has forwarded the props of a new Component node to the
\* instance of the old one, the props of the instance are the props it held
\* before with the forwarded ones written over them ({ ...this.props, ...props }).
C18_PropsMerged ==
  \A r \in w.reused :
    (r.type = DOM_TYPES.COMPONENT /\ r.componentBefore # Absent) =>
      /\ DOMAIN r.propsAfter = DOMAIN r.propsBefore \cup DOMAIN r.propsForwarded
      /\ \A key \in DOMAIN r.propsForwarded : r.propsAfter[key] = r.propsForwarded[key]
      /\ \A key \in DOMAIN r.propsBefore \ DOMAIN r.propsForwarded :
           r.propsAfter[key] = r.propsBefore[key]

\* a parent stops passing n to a Multi that was given n = "2": the instance
\* keeps it
C18_Witness ==
  /\ obs.op = "patch" /\ Ok(w)
  /\ \E r \in w.reused :
       /\ r.type = DOM_TYPES.COMPONENT
       /\ r.propsBefore = ("n" :> "2") /\ r.propsForwarded = EmptyMap
       /\ r.propsAfter = ("n" :> "2")

\* C5 as stated: a patchDOM(new, new, container) that follows a patchDOM(old,
\* new, container) changes nothing in the live environment: no node is
\* created, inserted, removed or moved, no attribute or text is written and no
\* listener is added or removed.
C5_AsStated ==
  (obs.op = "repatch" /\ Did("patch") /\ Ok(w)) =>
    /\ w.muts = obs.before.muts
    /\ w.nodes = obs.before.nodes

\* C6 as stated: once destroyDOM has been called on the tree that was just
\* mounted, the container has the children it had before the mount, in the
\* same order.
C6_AsStated ==
  (obs.op = "destroy" /\ cur.history = <<"mount", "destroy">>) =>
    w.nodes[Container].childNodes = WorldInit.nodes[Container].childNodes

\* C9: no job (in this specification every job is an onMounted or onUnmounted
\* hook) is ever called while mountDOM, patchDOM or destroyDOM is in progress,
\* and a step in which the application calls one of them starts no job: the
\* hooks it queues are started by a later drain.
C9_HooksAreDeferred ==
  /\ [](\A i \in 1..Len(w.sch.started) : ~ w.sch.started[i].inEngine)
  /\ [][cur' # cur => w'.sch.started = w.sch.started]_vars

\* both hooks of one component have run, each from a drain that followed the
\* call that queued it
C9_Witness ==
  /\ cur.phase = "destroyed"
  /\ Len(w.sch.started) >= 2
  /\ w.sch.jobs = <<>>
  /\ Len(w.sch.submitted) = Len(w.sch.started)


(***************************************************************************)
(* Properties of patchElement on attributes, classes and styles (SpecEl).  *)
(***************************************************************************)
\* what props describe: the attributes that have a value, the class names of
\* the string or of the array, the properties of the style object
ClassNames(class) ==
  IF class.kind = "array"
  THEN {class.list[i] : i \in {j \in 1..Len(class.list) : class.list[j] \notin {<<>>, <<Space>>}}}
  ELSE DomTokens(class.text)

HasAttr(props, name) == name \in DOMAIN props.attrs /\ props.attrs[name] # Undefined

AsDescribed(node, props) ==
  /\ \A name \in DOMAIN node.attrs \cup DOMAIN props.attrs :
       IF HasAttr(props, name)
       THEN name \in DOMAIN node.attrs /\ node.attrs[name] = props.attrs[name]
       ELSE name \notin DOMAIN node.attrs
  /\ node.classList = ClassNames(props.class)
  /\ DOMAIN node.style = DOMAIN props.style
  /\ \A name \in DOMAIN props.style : node.style[name] = props.style[name]

SameEntry(oldObj, newObj, name) ==
  /\ name \in DOMAIN oldObj /\ name \in DOMAIN newObj
  /\ oldObj[name] = newObj[name]

Since(after, before) == SubSeq(after, Len(before) + 1, Len(after))

\* the writes the patch made on the node left alone what is the same on both sides
Untouched(nodeAfter, nodeBefore, oldProps, newProps) ==
  /\ \A name \in Range(Since(nodeAfter.touched.attrs, nodeBefore.touched.attrs)) :
       ~ SameEntry(oldProps.attrs, newProps.attrs, name)
  /\ \A name \in Range(Since(nodeAfter.touched.styles, nodeBefore.touched.styles)) :
       ~ SameEntry(oldProps.style, newProps.style, name)
  /\ \A token \in Range(Since(nodeAfter.touched.classes, nodeBefore.touched.classes)) :
       ~ (token \in ClassNames(oldProps.class) /\ token \in ClassNames(newProps.class))

ElementPatched ==
  /\ obs.op = "patch" /\ Ok(w)
  /\ cur.tree.type = DOM_TYPES.ELEMENT /\ obs.old.type = DOM_TYPES.ELEMENT

P19_NoThrow == (obs.op = "patch" /\ obs.old.type = DOM_TYPES.ELEMENT) => Ok(w)


(***************************************************************************)
(* Properties of insert (SpecInsert).                                      *)
(***************************************************************************)
Inserted == obs.op = "mount" /\ cur.tree.type \in {DOM_TYPES.TEXT, DOM_TYPES.ELEMENT}

ChildrenBefore == obs.before.nodes[ListEl].childNodes

ChildrenAfter == w.nodes[ListEl].childNodes

\* C20: a unit mounted into a container of n children at position p is
\* appended when p is null, the call throws and the children stay as they
\* were when p is negative, the unit is appended when p >= n, and otherwise
\* it is put before the child that was at index p, so that it is at index p
C20_InsertContract ==
  Inserted =>
    IF cur.index = NullIndex \/ cur.index >= Len(ChildrenBefore)
    THEN /\ cur.phase = "live"
         /\ ChildrenAfter = Append(ChildrenBefore, w.el[cur.tree.id])
    ELSE IF cur.index < 0
    THEN /\ cur.phase = "failed"
         /\ ChildrenAfter = ChildrenBefore
    ELSE /\ cur.phase = "live"
         /\ ChildrenAfter[cur.index + 1] = w.el[cur.tree.id]
         /\ ChildrenAfter = SubSeq(ChildrenBefore, 1, cur.index)
                              \o <<w.el[cur.tree.id]>>
                              \o SubSeq(ChildrenBefore, cur.index + 1, Len(ChildrenBefore))

\* a unit was mounted at position 1 of a list of two children and is between them
C20_Witness ==
  /\ Inserted /\ cur.phase = "live"
  /\ cur.index = 1 /\ Len(ChildrenBefore) = 2
  /\ ChildrenAfter = <<ChildrenBefore[1], w.el[cur.tree.id], ChildrenBefore[2]>>

\* a negative position threw and left the two children of the list in place
C20_NegativeThrows ==
  /\ Inserted /\ cur.phase = "failed" /\ cur.index = -1
  /\ Len(ChildrenBefore) = 2 /\ ChildrenAfter = ChildrenBefore


(***************************************************************************)
(* Properties of the engines on unrecognized nodes (SpecVariant).          *)
(***************************************************************************)
Unrecognized(vdom) ==
  vdom.type \notin {DOM_TYPES.TEXT, DOM_TYPES.ELEMENT, DOM_TYPES.FRAGMENT, DOM_TYPES.COMPONENT}

LastCall == IF cur.history = <<>> THEN "none" ELSE cur.history[Len(cur.history)]

\* C21: a call of mountDOM, destroyDOM or patchDOM on a node of a variant that
\* no engine recognizes (for patchDOM: as the old or as the new node) throws
C21_AsStated ==
  (/\ LastCall \in {"mount", "destroy", "patch"}
   /\ Unrecognized(cur.tree) \/ (LastCall = "patch" /\ Unrecognized(obs.old)))
  => cur.phase = "failed"

\* mountDOM and destroyDOM throw on such a node, and patchDOM throws when only
\* one of its two nodes is one
P21_MountDestroyThrow ==
  (/\ LastCall \in {"mount", "destroy", "patch"}
   /\ Unrecognized(cur.tree) \/ (LastCall = "patch" /\ Unrecognized(obs.old))
   /\ ~ (LastCall = "patch" /\ obs.old.type = cur.tree.type))
  => cur.phase = "failed"


(***************************************************************************)
(* Properties of the functions without effects (SpecPure).                 *)
(***************************************************************************)
Returned(fn) == pure.pc = "done" /\ pure.fn = fn

NoRepeats(s) == \A i, j \in 1..Len(s) : s[i] = s[j] => i = j

\* C22: objectsDiff(old, new) returns as added the keys of new that old does
\* not have, as removed the keys of old that new does not have, as updated the
\* keys of both whose values differ; no key is in two of the lists, and the
\* three are empty when old and new have the same entries
C22_AsStated ==
  Returned("objectsDiff") =>
    LET oldObj == pure.args[1]
        newObj == pure.args[2]
        diff == pure.result
    IN /\ Range(diff.added) = DOMAIN newObj \ DOMAIN oldObj
       /\ Range(diff.removed) = DOMAIN oldObj \ DOMAIN newObj
       /\ Range(diff.updated) = {key \in DOMAIN oldObj \cap DOMAIN newObj :
                                   oldObj[key] # newObj[key]}
       /\ NoRepeats(diff.added \o diff.removed \o diff.updated)
       /\ oldObj = newObj => diff.added \o diff.removed \o diff.updated = <<>>

\* the statement holds of objects that own no key that Object.prototype has
P22_OwnKeys ==
  (/\ Returned("objectsDiff")
   /\ (DOMAIN pure.args[1] \cup DOMAIN pure.args[2]) \cap DOMAIN ObjectPrototype = {})
  => /\ Range(pure.result.added) = DOMAIN pure.args[2] \ DOMAIN pure.args[1]
     /\ Range(pure.result.removed) = DOMAIN pure.args[1] \ DOMAIN pure.args[2]
     /\ Range(pure.result.updated) =
          {key \in DOMAIN pure.args[1] \cap DOMAIN pure.args[2] :
             pure.args[1][key] # pure.args[2][key]}


\* the entries of a children array that are neither null nor undefined, and
\* the place each of them takes among those
IsKept(children, i) == children[i] # JsNull /\ children[i] # JsUndefined

PlaceOf(children, i) == Cardinality({j \in 1..i : IsKept(children, j)})

AsNodes(children, result) ==
  /\ Len(result) = PlaceOf(children, Len(children))
  /\ \A i \in 1..Len(children) :
       IsKept(children, i) =>
         result[PlaceOf(children, i)] =
           IF "js" \in DOMAIN children[i]
           THEN [type |-> DOM_TYPES.TEXT, value |-> children[i].value]
           ELSE children[i]

\* C23: the children of the node that h or hFragment returns are the entries
\* of the array given, in their order, without the null and undefined ones
\* and with a text node for every string; h called without props has the
\* props {} and called without children has no children
C23_Children ==
  /\ Returned("h") =>
       /\ pure.result.tag = pure.args[1]
       /\ pure.result.props = (IF Len(pure.args) >= 2 THEN pure.args[2] ELSE NoProps)
       /\ Len(pure.args) < 2 => pure.result.props.attrs = EmptyMap /\ pure.result.props.on = EmptyMap
       /\ Len(pure.args) < 3 => pure.result.children = <<>>
       /\ Len(pure.args) = 3 => AsNodes(pure.args[3], pure.result.children)
  /\ Returned("hFragment") =>
       /\ pure.result.type = DOM_TYPES.FRAGMENT
       /\ AsNodes(pure.args[1], pure.result.children)

\* h was given null, a string and undefined, and returned one text node
C23_Witness ==
  /\ Returned("h")
  /\ Len(pure.args) = 3
  /\ pure.args[3] = <<JsNull, JsString("a"), JsUndefined>>
  /\ pure.result.children = <<hString("a")>>


(***************************************************************************)
(* Properties of the mount hooks of nested components (SpecHooks).         *)
(***************************************************************************)
\* C24: when a tree with nested components is mounted, no onMounted hook is
\* started by the mount call or while an engine call is in progress, and the
\* hooks that have started followed by those still queued are the hooks of
\* the instances in the order in which their mount() completed
C24_HookOrder ==
  /\ [](/\ \A i \in 1..Len(w.sch.started) : ~ w.sch.started[i].inEngine
        /\ Len(w.sch.started) + Len(w.sch.jobs) = Len(w.mounted)
        /\ \A i \in 1..Len(w.sch.started) :
             /\ w.sch.started[i].job.hook = "onMounted"
             /\ w.sch.started[i].job.component = w.mounted[i]
        /\ \A i \in 1..Len(w.sch.jobs) :
             /\ w.sch.jobs[i].hook = "onMounted"
             /\ w.sch.jobs[i].component = w.mounted[Len(w.sch.started) + i])
  /\ [][cur' # cur => w'.sch.started = w.sch.started]_vars

\* the hooks of an outer component and of the two components in its content
\* have run, the inner ones first, after the mount call had returned with the
\* three of them queued
C24_Witness ==
  /\ cur.history = <<"mount">> /\ cur.phase = "live"
  /\ Len(obs.before.sch.started) = 0
  /\ Len(w.sch.started) = 3 /\ w.sch.jobs = <<>>
  /\ w.sch.started[1].job.component = 2
  /\ w.sch.started[2].job.component = 3
  /\ w.sch.started[3].job.component = 1
  /\ w.inst[2].parentComponent = 1 /\ w.inst[3].parentComponent = 1


\* the list in which the first fragment is replaced by its children, again and
\* again until no fragment is left
RECURSIVE Expanded(_)
Expanded(list) ==
  LET isFragment(i) == list[i].type = DOM_TYPES.FRAGMENT
  IN IF \A i \in 1..Len(list) : ~ isFragment(i) THEN list
     ELSE LET i == CHOOSE k \in 1..Len(list) : isFragment(k) /\ \A j \in 1..(k - 1) : ~ isFragment(j)
          IN Expanded(SubSeq(list, 1, i - 1) \o list[i].children \o SubSeq(list, i + 1, Len(list)))

\* the fragments nested in the children of a node, counted in levels
RECURSIVE FragmentDepth(_)
FragmentDepth(vdom) ==
  IF vdom.type # DOM_TYPES.FRAGMENT THEN 0
  ELSE 1 + (IF vdom.children = <<>> THEN 0
            ELSE CHOOSE d \in 0..MaxDepth :
                   /\ \E i \in 1..Len(vdom.children) : FragmentDepth(vdom.children[i]) = d
                   /\ \A i \in 1..Len(vdom.children) : FragmentDepth(vdom.children[i]) <= d)

\* C25: extractChildren returns the children of the node in order, every
\* fragment child replaced by its own flattened children to any depth; element
\* and component children are returned as they are, with their own children
\* untouched, and a node without children gives the empty list
C25_Flattened ==
  Returned("extractChildren") =>
    LET node == pure.args[1]
        result == pure.result
    IN /\ "children" \notin DOMAIN node => result = <<>>
       /\ "children" \in DOMAIN node =>
            /\ result = Expanded(node.children)
            /\ \A i \in 1..Len(result) : result[i].type # DOM_TYPES.FRAGMENT
            /\ (\A i \in 1..Len(node.children) : node.children[i].type # DOM_TYPES.FRAGMENT)
                 => result = node.children

\* a node whose children are a fragment holding a fragment with a text and an
\* element that has a fragment child of its own
C25_Witness ==
  /\ Returned("extractChildren")
  /\ "children" \in DOMAIN pure.args[1]
  /\ Len(pure.args[1].children) = 2
  /\ FragmentDepth(pure.args[1].children[1]) = 2
  /\ pure.args[1].children[2].type = DOM_TYPES.ELEMENT
  /\ pure.result = <<hString("b"), hString("c"), pure.args[1].children[2]>>
  /\ pure.args[1].children[2].children[1].type = DOM_TYPES.FRAGMENT


\* the objects of a virtual tree, and with them the objects of the views that
\* the components of the tree have rendered in the world W
RECURSIVE NodeIds(_)
NodeIds(vdom) ==
  {vdom.id} \cup (IF "children" \in DOMAIN vdom
                  THEN UNION {NodeIds(vdom.children[i]) : i \in 1..Len(vdom.children)}
                  ELSE {})

RECURSIVE SubtreeIds(_, _)
SubtreeIds(W, vdom) ==
  NodeIds(vdom)
  \cup UNION {SubtreeIds(W, W.inst[W.component[id]].vdom) :
               id \in {k \in NodeIds(vdom) \cap DOMAIN W.component :
                         W.inst[W.component[k]].vdom # NoVdom}}

HasEl(W, id) == id \in DOMAIN W.el
HasComponent(W, id) == id \in DOMAIN W.component

\* C26 as stated: no node of a tree has an el or a component before the tree
\* is mounted, and once destroyDOM(n) has returned neither n nor a node below
\* it has one.
C26_AsStated ==
  /\ obs.op = "mount" =>
       \A id \in NodeIds(cur.tree) : ~ HasEl(obs.before, id) /\ ~ HasComponent(obs.before, id)
  /\ (obs.op = "destroy" /\ Ok(w)) =>
       \A id \in SubtreeIds(obs.before, obs.old) : ~ HasEl(w, id) /\ ~ HasComponent(w, id)

\* what holds of destroyDOM: every node of the subtree has lost its el, and
\* the component nodes are the only ones that keep a reference
P26_ElCleared ==
  /\ obs.op = "mount" =>
       \A id \in NodeIds(cur.tree) : ~ HasEl(obs.before, id) /\ ~ HasComponent(obs.before, id)
  /\ (obs.op = "destroy" /\ Ok(w)) =>
       /\ \A id \in SubtreeIds(obs.before, obs.old) : ~ HasEl(w, id)
       /\ \A id \in SubtreeIds(obs.before, obs.old) :
            HasComponent(w, id) <=> HasComponent(obs.before, id)


\* the place at which a job is started by the step, 0 if the step does not start it
StartedAt(id) ==
  IF \E i \in (Len(sch.started) + 1)..Len(sch'.started) : sch'.started[i].id = id
  THEN CHOOSE i \in (Len(sch.started) + 1)..Len(sch'.started) : sch'.started[i].id = id
  ELSE 0

ReturnsPromise(job) == job.kind \in {"resolve", "reject"}

\* C27: when a drain starts a job that returns a promise and another job is
\* queued behind it, the same drain starts that job next, and the promise is
\* still unsettled when the drain is over
C27_NoWaiting ==
  [][\A n \in 1..(Len(sch.jobs) - 1) :
       (StartedAt(sch.jobs[n].id) # 0 /\ ReturnsPromise(sch.jobs[n])) =>
         /\ StartedAt(sch.jobs[n + 1].id) = StartedAt(sch.jobs[n].id) + 1
         /\ sch.jobs[n] \in sch'.pending]_vars

\* two jobs have been started by one drain, and the promise that the first
\* returned has not settled
C27_Witness ==
  /\ Len(sch.started) = 2
  /\ sch.submitted = <<1, 2>>
  /\ sch.jobs = <<>> /\ sch.microtasks = <<>>
  /\ ReturnsPromise(sch.started[1].job)
  /\ sch.started[1].job \in sch.pending
  /\ sch.started[2].id = 2
  /\ sch.reported = {}


\* the step is an iteration of the loop that pushes a REMOVE
EmitsRemove ==
  /\ Len(dSt'.sequence) = Len(dSt.sequence) + 1
  /\ dSt'.sequence[Len(dSt'.sequence)].op = ARRAY_DIFF_OP.REMOVE

\* the working copy has an element at the loop index, and it matches the
\* element of the new sequence at position j (counted from 1)
HasCurrent == dSt.index < Len(dSt.a.array)
MatchesNew(j) == equalsFn(dFn, dSt.a.array[dSt.index + 1], dNew[j])

\* C28 as stated: at position i the loop emits REMOVE exactly when the working
\* copy's element at i matches no element of the new sequence at or after i.
C28_AsStated ==
  [][InLoop =>
       (EmitsRemove <=>
          (HasCurrent /\ \A j \in (dSt.index + 1)..Len(dNew) : ~ MatchesNew(j)))]_vars

\* C28, amended: at position i the loop emits REMOVE exactly when the working
\* copy has an element at i that matches no element of the new sequence at any
\* position; the REMOVE names that element and i, the working copy loses the
\* element and the loop index stays at i.
C28_RemoveRule ==
  [][InLoop =>
       /\ EmitsRemove <=> (HasCurrent /\ \A j \in 1..Len(dNew) : ~ MatchesNew(j))
       /\ EmitsRemove =>
            /\ dSt'.index = dSt.index
            /\ dSt'.sequence[Len(dSt'.sequence)].index = dSt.index
            /\ dSt'.sequence[Len(dSt'.sequence)].item = dSt.a.array[dSt.index + 1]
            /\ dSt'.a.array = SubSeq(dSt.a.array, 1, dSt.index)
                                \o SubSeq(dSt.a.array, dSt.index + 2, Len(dSt.a.array))
            /\ dSt'.sequence = Append(dSt.sequence, dSt'.sequence[Len(dSt'.sequence)])]_vars

\* B has been removed at position 1 of [A, B, C] on the way to [A, C], and the
\* loop is still at position 1
C28_Witness ==
  /\ dPc = "loop" /\ dFn = "strict"
  /\ dOld = <<"A", "B", "C">> /\ dNew = <<"A", "C">>
  /\ dSt.index = 1
  /\ Len(dSt.sequence) = 2
  /\ dSt.sequence[2] = [op |-> ARRAY_DIFF_OP.REMOVE, index |-> 1, item |-> "B"]
  /\ dSt.a.array = <<"A", "C">>


\* the step is an iteration of the loop that pushes a MOVE
EmitsMove ==
  /\ Len(dSt'.sequence) = Len(dSt.sequence) + 1
  /\ dSt'.sequence[Len(dSt'.sequence)].op = ARRAY_DIFF_OP.MOVE

\* the places of the working copy, from the loop index on, whose element
\* matches the new element at the loop index (places counted from 0)
Candidates ==
  {k \in dSt.index..(Len(dSt.a.array) - 1) :
     equalsFn(dFn, dNew[dSt.index + 1], dSt.a.array[k + 1])}

\* the operations that take an element of the old sequence over
Consumes(operation) == operation.op \in {ARRAY_DIFF_OP.MOVE, ARRAY_DIFF_OP.NOOP}

\* C29: a MOVE to position i takes the first of the elements of the working
\* copy from i on that match the new element at i, whatever their number, and
\* the old elements that match one another are taken over (moved or kept) in
\* the order they have in the old sequence
C29_FirstMatch ==
  /\ [][(InLoop /\ EmitsMove) =>
          LET operation == dSt'.sequence[Len(dSt'.sequence)]
          IN /\ operation.from \in Candidates
             /\ \A k \in Candidates : operation.from <= k
             /\ operation.index = dSt.index
             /\ operation.item = dSt.a.array[operation.from + 1]
             /\ operation.originalIndex = dSt.a.originalIndices[operation.from + 1]
             /\ \A k \in Candidates : operation.originalIndex <= dSt.a.originalIndices[k + 1]]_vars
  /\ [](\A p, q \in 1..Len(dSt.sequence) :
          (/\ p < q
           /\ Consumes(dSt.sequence[p]) /\ Consumes(dSt.sequence[q])
           /\ equalsFn(dFn, dSt.sequence[p].item, dSt.sequence[q].item))
          => dSt.sequence[p].originalIndex < dSt.sequence[q].originalIndex)

\* [A, B, B] on the way to [B, A, B]: both B match at position 0, and the
\* first of them has been moved there
C29_Witness ==
  /\ dPc = "loop" /\ dFn = "strict"
  /\ dOld = <<"A", "B", "B">> /\ dNew = <<"B", "A", "B">>
  /\ dSt.sequence = <<[op |-> ARRAY_DIFF_OP.MOVE, originalIndex |-> 1, from |-> 1,
                       index |-> 0, item |-> "B"]>>
  /\ dSt.a.originalIndices = <<1, 0, 2>>


\* the live nodes a mounted virtual node stands for in the world W, in order:
\* its el for a text or an element, those of its children for a fragment,
\* those of its view for a component
RECURSIVE LiveUnits(_, _), LiveUnitsOf(_, _)
LiveUnits(W, vdom) ==
  IF vdom.type \in {DOM_TYPES.TEXT, DOM_TYPES.ELEMENT}
  THEN (IF vdom.id \in DOMAIN W.el THEN <<W.el[vdom.id]>> ELSE <<>>)
  ELSE IF vdom.type = DOM_TYPES.COMPONENT
  THEN (IF vdom.id \in DOMAIN W.component /\ W.inst[W.component[vdom.id]].vdom # NoVdom
        THEN LiveUnits(W, W.inst[W.component[vdom.id]].vdom) ELSE <<>>)
  ELSE LiveUnitsOf(W, vdom.children)

LiveUnitsOf(W, children) ==
  IF children = <<>> THEN <<>>
  ELSE LiveUnits(W, Head(children)) \o LiveUnitsOf(W, Tail(children))

\* the nodes are children of the container in the world W, one after the other
\* from the place given (counted from 0)
AtPlace(W, units, place) ==
  /\ place >= 0
  /\ place + Len(units) <= Len(W.nodes[Container].childNodes)
  /\ SubSeq(W.nodes[Container].childNodes, place + 1, place + Len(units)) = units

\* the application has replaced the mounted tree by one that is not equal to it
Replaced == obs.op = "patch" /\ Ok(w) /\ ~ areNodesEqual(obs.old, cur.tree)

OldUnits == LiveUnits(obs.before, obs.old)
NewUnits == LiveUnits(w, cur.tree)

P30_NotAFragment ==
  (Replaced /\ OldUnits # <<>> /\ NewUnits # <<>> /\ obs.old.type # DOM_TYPES.FRAGMENT) =>
    AtPlace(w, NewUnits, IndexOf(obs.before.nodes[Container].childNodes, OldUnits[1]))

\* the old node was a component, a self-update came before the patch, and the
\* new node has taken the component's place in front of the <hr>
P30_Reached ==
  /\ Replaced /\ Did("update")
  /\ obs.old.type = DOM_TYPES.COMPONENT
  /\ cur.index = 0
  /\ NewUnits # <<>> /\ AtPlace(w, NewUnits, 0)


(***************************************************************************)
(* Properties of createFragmentNodes (SpecFragment).                       *)
(***************************************************************************)
\* the fragment of the specification has been mounted at a place of the
\* container: the index given, or the end for null and for an index beyond it
FragmentMounted == obs.op = "mount" /\ cur.tree.type = DOM_TYPES.FRAGMENT /\ Ok(w)

MountPlace ==
  LET length == Len(obs.before.nodes[Container].childNodes)
  IN IF cur.index = NullIndex \/ cur.index > length THEN length ELSE cur.index

\* C31 as stated: the live nodes of the fragment's children, fragments and
\* components among them, are in the container one after the other from the
\* place of the mount on, in the order of the tree.
C31_AsStated ==
  FragmentMounted => AtPlace(w, LiveUnits(w, cur.tree), MountPlace)

\* a fragment child whose number of children is the number of its live nodes
RECURSIVE CountsRight(_)
CountsRight(vdom) ==
  vdom.type = DOM_TYPES.FRAGMENT =>
    /\ Len(vdom.children) = Len(LiveUnits(w, vdom))
    /\ \A i \in 1..Len(vdom.children) : CountsRight(vdom.children[i])

\* what holds: the same for the fragments whose fragment children have as
\* many children as live nodes, and for every fragment mounted with index null
P31_CountedChildren ==
  (FragmentMounted /\ (cur.index = NullIndex
                         \/ \A i \in 1..Len(cur.tree.children) : CountsRight(cur.tree.children[i])))
    => AtPlace(w, LiveUnits(w, cur.tree), MountPlace)


(***************************************************************************)
(* Properties of patchChildren inside a component (SpecOffset).            *)
(***************************************************************************)
\* the element nodes of a view, those inside its elements and fragments included
RECURSIVE ElementNodes(_)
ElementNodes(vdom) ==
  (IF vdom.type = DOM_TYPES.ELEMENT THEN {vdom} ELSE {})
  \cup (IF vdom.type \in {DOM_TYPES.ELEMENT, DOM_TYPES.FRAGMENT}
        THEN UNION {ElementNodes(vdom.children[i]) : i \in 1..Len(vdom.children)}
        ELSE {})

\* the mounted components whose view is a fragment
FragmentComponents ==
  {c \in 1..Len(w.inst) : w.inst[c].isMounted /\ w.inst[c].vdom.type = DOM_TYPES.FRAGMENT}

\* the children of the live element are the live nodes of the node's children
ChildrenInOrder(W, vdom) ==
  vdom.id \in DOMAIN W.el /\ W.nodes[W.el[vdom.id]].childNodes = LiveUnitsOf(W, vdom.children)

\* the live nodes of the component's view are children of its host element,
\* one after the other and in the order of the view
ViewInOrder(W, c) ==
  \E place \in 0..Len(W.nodes[W.inst[c].hostEl].childNodes) :
    LET units == LiveUnits(W, W.inst[c].vdom)
    IN SubSeq(W.nodes[W.inst[c].hostEl].childNodes, place + 1, place + Len(units)) = units

Patched == obs.op = "patch" /\ Ok(w)

\* C32 as stated: a child added to an element inside a component is mounted at
\* its index among the element's children, whatever the offset of the
\* component, so that after a patch every element of a component's view has its
\* children in the order of the view.
C32_AsStated ==
  Patched => \A c \in FragmentComponents :
               \A element \in ElementNodes(w.inst[c].vdom) : ChildrenInOrder(w, element)

\* what holds: the children of the root fragment of a component stay where
\* the component was mounted, in the order of the view
P32_RootFragment ==
  Patched => \A c \in FragmentComponents : ViewInOrder(w, c)

\* and the elements of the views are right as long as the component's offset is 0
P32_NoOffset ==
  Patched => \A c \in FragmentComponents :
               offset(w, c).value <= 0 =>
                 \A element \in ElementNodes(w.inst[c].vdom) : ChildrenInOrder(w, element)


(***************************************************************************)
(* Properties of the MOVE of patchChildren (SpecDom).                      *)
(***************************************************************************)
\* the MOVE operations patchChildren has applied to the children of the two
\* trees of the last patchDOM call
Moves ==
  LET diffSeq == arraysDiffSequence(OldKids, NewKids, "nodes")
  IN {diffSeq[i] : i \in {j \in 1..Len(diffSeq) : diffSeq[j].op = ARRAY_DIFF_OP.MOVE}}

ChildrenPatched == obs.op = "patch" /\ Ok(w) /\ areNodesEqual(obs.old, cur.tree)

\* the node has its reference: the instance for a component, el otherwise
HasReference(W, vdom) ==
  IF vdom.type = DOM_TYPES.COMPONENT THEN HasComponent(W, vdom.id) ELSE HasEl(W, vdom.id)

\* the live nodes of the item are children of the parent, one after the other
\* and in their order
KeptTogether(W, parentEl, vdom) ==
  \E place \in 0..Len(W.nodes[parentEl].childNodes) :
    LET units == LiveUnits(W, vdom)
    IN SubSeq(W.nodes[parentEl].childNodes, place + 1, place + Len(units)) = units

\* C33 as stated: an item that patchChildren has moved is patched against the
\* new item, which has its el, or its instance, afterwards, and its live nodes
\* are together and in order under the parent, however many they are.
C33_AsStated ==
  ChildrenPatched =>
    \A operation \in Moves :
      /\ HasReference(w, NewKids[operation.index + 1])
      /\ KeptTogether(w, w.el[cur.tree.id], NewKids[operation.index + 1])

\* what holds: the same for the items that have a live node at least
P33_WithUnits ==
  ChildrenPatched =>
    \A operation \in Moves :
      LiveUnits(obs.before, OldKids[operation.originalIndex + 1]) # <<>> =>
        /\ HasReference(w, NewKids[operation.index + 1])
        /\ KeptTogether(w, w.el[cur.tree.id], NewKids[operation.index + 1])

\* a component with two live nodes has been moved
P33_Reached ==
  /\ ChildrenPatched
  /\ \E operation \in Moves :
       /\ Len(LiveUnits(obs.before, OldKids[operation.originalIndex + 1])) = 2
       /\ Len(LiveUnits(w, NewKids[operation.index + 1])) = 2


(***************************************************************************)
(* Properties of the event handlers of a patched element (SpecEvents).     *)
(***************************************************************************)
\* the listeners registered on the live element for the event
ListenersOn(W, el, eventName) ==
  {entry.listener : entry \in {e \in W.nodes[el].handlers : e.event = eventName}}

\* the element has one listener for every event of the node's `on` map, made
\* from the handler the map gives, and none for any other event
BoundAsMapped(W, vdom) ==
  LET el == W.el[vdom.id]
  IN /\ \A entry \in W.nodes[el].handlers : entry.event \in DOMAIN vdom.props.on
     /\ \A eventName \in DOMAIN vdom.props.on :
          /\ Cardinality(ListenersOn(W, el, eventName)) = 1
          /\ \A listener \in ListenersOn(W, el, eventName) :
               W.bound[listener].handler = vdom.props.on[eventName]

\* vdom.listeners holds, for every event of the map, the listener that is registered
Registered(W, vdom) ==
  /\ vdom.id \in DOMAIN W.listeners
  /\ \A eventName \in DOMAIN vdom.props.on :
       /\ eventName \in DOMAIN W.listeners[vdom.id]
       /\ W.listeners[vdom.id][eventName] \in ListenersOn(W, W.el[vdom.id], eventName)

Live == cur.phase = "live" /\ Ok(w)

\* C34 as stated: whatever patches a live element has been through, the
\* handlers on its live element are one per event of the latest node's map,
\* each made from the map's handler, and the latest node's listeners hold the
\* registered function of each of these events.
C34_AsStated ==
  Live => \A element \in ElementNodes(cur.tree) :
            BoundAsMapped(w, element) /\ Registered(w, element)

\* what holds: the same after the mount, and the handlers on the element are
\* as the map says after the first patch too
P34_FirstPatch ==
  /\ (Live /\ cur.history = <<"mount">>) =>
       \A element \in ElementNodes(cur.tree) :
         BoundAsMapped(w, element) /\ Registered(w, element)
  /\ (Live /\ cur.history = <<"mount", "patch">>) =>
       \A element \in ElementNodes(cur.tree) : BoundAsMapped(w, element)


\* the live elements the nodes of the tree stood for before it was destroyed
ElementsBefore == {obs.before.el[element.id] : element \in ElementNodes(obs.old)}

Destroyed == obs.op = "destroy" /\ cur.phase = "destroyed" /\ Ok(w)

\* C35 as stated: once an element that was mounted and patched has been
\* destroyed, no handler is registered any more on the live elements it and
\* the elements below it stood for.
C35_AsStated ==
  Destroyed => \A el \in ElementsBefore : w.nodes[el].handlers = {}

\* what holds: the same for an element destroyed without a patch in between
P35_Unpatched ==
  (Destroyed /\ cur.history = <<"mount", "destroy">>) =>
    \A el \in ElementsBefore : w.nodes[el].handlers = {}

(***************************************************************************)
(* Properties of the HashRouter under the application (SpecRouter).        *)
(***************************************************************************)
\* no asynchronous call of the router waits at an await
Settled == router.pending = <<>>

\* the last call of the script was an unmount() of a mounted application
Unmounted == call.op = "unmount" /\ call.wasMounted

\* C36: when unmount() was called on the mounted application, before or
\* after init() has finished, then once the asynchronous work has settled
\* the router is not initialized and the window holds no popstate listener
\* of it; and the calls of init() perform the setup once.
C36_AsStated ==
  /\ (Unmounted /\ Settled) => (~ router.isInitialized /\ router.popstate = {})
  /\ router.setups <= 1

\* what the code does keep: a destroy() that finds the router initialized
\* removes the listener, and the window never holds it twice
P36_ListenerRemoved ==
  /\ (Unmounted /\ router.destroyedAt # <<>> /\ router.destroyedAt[Len(router.destroyedAt)]
        /\ router.pending = <<>> /\ router.setups = 1)
       => router.popstate = {}
  /\ Cardinality(router.popstate) <= 1

\* an unmount() before init() has finished, and one after it
P36_Early == ~ (Unmounted /\ Settled /\ router.destroyedAt = <<FALSE>>)
P36_Late == ~ (Unmounted /\ Settled /\ router.destroyedAt = <<TRUE>>)

(***************************************************************************)
(* The operation list as a correspondence between the indices of the old   *)
(* and of the new sequence (SpecDiff).                                     *)
(***************************************************************************)
\* the indices of the old sequence that the REMOVE operations of a list take
\* away: the list replayed on the indices 0..length-1, a REMOVE taking what
\* stands at its index at that moment, an ADD putting the marker -1 there
RECURSIVE RemovedIndices(_, _)
RemovedIndices(operations, indices) ==
  IF operations = <<>> THEN <<>>
  ELSE LET operation == Head(operations)
       IN CASE operation.op = ARRAY_DIFF_OP.REMOVE ->
                 <<indices[operation.index + 1]>>
                   \o RemovedIndices(Tail(operations), SpliceOut(indices, operation.index))
            [] operation.op = ARRAY_DIFF_OP.ADD ->
                 RemovedIndices(Tail(operations), SpliceIn(indices, operation.index, -1))
            [] operation.op = ARRAY_DIFF_OP.MOVE ->
                 RemovedIndices(Tail(operations),
                                SpliceIn(SpliceOut(indices, operation.from), operation.index,
                                         indices[operation.from + 1]))
            [] OTHER -> RemovedIndices(Tail(operations), indices)

\* the indices of the old sequence a list consumes, one entry per operation
\* that consumes one
ConsumedIndices(operations) ==
  RemovedIndices(operations, indicesUpTo(Len(dOld)))
    \o [k \in 1..Len(SelectSeq(operations, Consumes)) |->
          SelectSeq(operations, Consumes)[k].originalIndex]

Produces(operation) ==
  operation.op \in {ARRAY_DIFF_OP.ADD, ARRAY_DIFF_OP.MOVE, ARRAY_DIFF_OP.NOOP}

\* the indices of the new sequence a list produces, one entry per operation
ProducedIndices(operations) ==
  [k \in 1..Len(SelectSeq(operations, Produces)) |->
     SelectSeq(operations, Produces)[k].index]

\* s holds each of 0..length-1 once and nothing else
EachOnce(s, length) ==
  /\ Len(s) = length
  /\ \A k \in 0..(length - 1) : \E i \in 1..Len(s) : s[i] = k

\* C37: in the list arraysDiffSequence returns every index of the old sequence
\* is consumed by exactly one REMOVE, NOOP or MOVE, every index of the new
\* sequence is produced by exactly one ADD, NOOP or MOVE, and every NOOP and
\* MOVE carries an originalIndex of the old sequence, never -1, whose item
\* equals the item of the new sequence at the operation's index.
C37_Correspondence ==
  dPc = "done" =>
    /\ EachOnce(ConsumedIndices(dSt.sequence), Len(dOld))
    /\ EachOnce(ProducedIndices(dSt.sequence), Len(dNew))
    /\ \A k \in 1..Len(dSt.sequence) :
         Consumes(dSt.sequence[k]) =>
           /\ dSt.sequence[k].originalIndex \in 0..(Len(dOld) - 1)
           /\ equalsFn(dFn, dOld[dSt.sequence[k].originalIndex + 1],
                       dNew[dSt.sequence[k].index + 1])

\* a returned list with an operation of each of the four kinds, on sequences
\* that hold an item twice
C37_Witness ==
  /\ dPc = "done"
  /\ {dSt.sequence[k].op : k \in 1..Len(dSt.sequence)}
       = {ARRAY_DIFF_OP.ADD, ARRAY_DIFF_OP.REMOVE, ARRAY_DIFF_OP.MOVE, ARRAY_DIFF_OP.NOOP}
  /\ ~ IsInjective(dNew)

(***************************************************************************)
(* Termination of arraysDiffSequence (SpecLoop).                           *)
(***************************************************************************)
\* an iteration of the for loop has run
Iterated == dPc = "loop" /\ dPc' = "loop" /\ dSt' # dSt

\* C38: arraysDiffSequence terminates for all old and new sequences and every
\* equalsFn: every iteration of its loop either advances the index or, after
\* a REMOVE, keeps the index and shrinks the working copy, and the call
\* returns.
C38_Terminates ==
  /\ [][Iterated =>
          \/ dSt'.index = dSt.index + 1 /\ Len(dSt'.a.array) >= Len(dSt.a.array)
          \/ dSt'.index = dSt.index /\ Len(dSt'.a.array) = Len(dSt.a.array) - 1]_vars
  /\ <>(dPc = "done")

\* the loop has stepped back after a REMOVE under an equalsFn of the caller
\* that is not an equivalence, and the call has returned
C38_Witness ==
  /\ dPc = "done"
  /\ dFn = "before"
  /\ dSt.index = Len(dNew)
  /\ \E k \in 1..Len(dSt.sequence) :
       /\ dSt.sequence[k].op = ARRAY_DIFF_OP.REMOVE
       /\ k < Len(dSt.sequence)
       /\ dSt.sequence[k + 1].op # ARRAY_DIFF_OP.REMOVE

(***************************************************************************)
(* Progress of the job queue (SpecSchedFair).                              *)
(***************************************************************************)
Submitted(id) == \E k \in 1..Len(sch.submitted) : sch.submitted[k] = id
Started(id) == \E k \in 1..Len(sch.started) : sch.started[k].id = id

\* isScheduled is set and no microtask will run processJobs
Stuck == sch.isScheduled /\ sch.microtasks = <<>>

\* C39: every job submitted with enqueueJob is eventually executed, whatever
\* the jobs submitted before it do, and isScheduled never stays true with no
\* drain pending.
C39_AsStated ==
  /\ \A id \in 1..MaxJobs : Submitted(id) ~> Started(id)
  /\ [](~ Stuck)

\* what the code does keep: as long as no job has thrown, the flag is set
\* only with a drain pending and a queue with jobs is eventually drained
P39_FlagUnlessThrown == Stuck => sch.uncaught # <<>>
P39_RunUnlessThrown == (sch.jobs # <<>>) ~> (sch.jobs = <<>> \/ sch.uncaught # <<>>)

(***************************************************************************)
(* Updates of a component that is not mounted (SpecComp).                  *)
(***************************************************************************)
\* the last call was an updateState or an updateProps on the instance while
\* it was not mounted
UpdatedUnmounted == call.op \in {"updateState", "updateProps"} /\ ~ call.wasMounted

\* C40: updateState or updateProps on a component that is not mounted raises
\* the lifecycle error and leaves the state and the props of the component as
\* they were before the call.
C40_AsStated ==
  UpdatedUnmounted =>
    /\ call.error = "Component is not mounted"
    /\ w.inst[1].state = call.before.inst[1].state
    /\ w.inst[1].props = call.before.inst[1].props

\* what the code does keep: the call raises the error, renders nothing and
\* touches no node; the state or the props are the merged ones
P40_Raised ==
  UpdatedUnmounted =>
    /\ call.error = "Component is not mounted"
    /\ w.nodes = call.before.nodes
    /\ w.inst[1].vdom = call.before.inst[1].vdom
    /\ ~ w.inst[1].isMounted
    /\ \/ /\ call.op = "updateState"
          /\ w.inst[1].props = call.before.inst[1].props
          /\ \E state \in [{"count"} -> 0..MaxCount] :
               w.inst[1].state = Merge(call.before.inst[1].state, state)
       \/ /\ call.op = "updateProps"
          /\ w.inst[1].state = call.before.inst[1].state
          /\ \E props \in {("n" :> "1"), ("title" :> "t")} :
               w.inst[1].props = Merge(call.before.inst[1].props, props)

P40_Reached == ~ (UpdatedUnmounted /\ call.op = "updateProps" /\ call.n > 2)

====
